---------------------------- MODULE Spec2Model ----------------------------
(***************************************************************************)
(* Content analysis and repurposing pipeline with provider fallback.       *)
(*                                                                         *)
(* Python strings are TLA+ strings (Len, \o and SubSeq act on them), lists *)
(* are sequences, dicts are records whose DOMAIN is the set of keys.       *)
(* A text is given by its token structure: a sequence of sentences, each a *)
(* non-empty sequence of words; Content renders it to the string the       *)
(* program receives, and the NLTK tokenizers read the structure back.      *)
(***************************************************************************)
EXTENDS Integers, Sequences, FiniteSets, TLC

VARIABLES
    \* the local engine called directly
    ltext,      \* the text under analysis
    lanalysis,  \* outcome of analyze_content, or the Analysis handed to repurpose_content
    lbundle,    \* outcome of LocalAIProcessor.repurpose_content
    lpc,        \* "input", "given", "analyzed", "repurposed", "raised"
    \* AIProcessor (Gemini) called directly
    gemini_key,     \* GEMINI_API_KEY
    use_gemini,     \* AIProcessor.use_gemini
    response,       \* what model.generate_content meets: a text, or an exception
    met_parts,      \* what the four sub-generations of repurpose_content met
    \* a processor called directly, call after call
    calls,      \* analyze_content and repurpose_content pairs completed
    sent,       \* requests the processor has sent to its backend
    last_request,       \* the last request of _query_huggingface, or NoRequest
    rejected,   \* whether the backend has answered a request with HTTP 401
    \* retrieve_context called directly on the table rows
    retrieval,  \* the variant, limit and exclude_content_id of the call, and its outcome
    \* the upload pipeline (routes/content.py with its HuggingFaceProcessor)
    api_key,            \* HUGGINGFACE_API_KEY
    use_huggingface,    \* HuggingFaceProcessor.use_huggingface
    now,                \* the clock: it ticks at each upload
    rows,               \* table content as committed: rows[id]
    pc,                 \* position of the request being served
    cid,                \* content_id of that request
    obj,                \* its session's Content object, pending changes included
    analysis_results,   \* local variable of process_content_sync
    attempt,            \* loop variable of _query_huggingface
    sentiment_result,   \* outcome of _query_huggingface
    requests,           \* the conditions the backend requests of this upload have met
    nltk_data,          \* whether the NLTK tokenizer data is installed
    db_failed,          \* whether a persistence operation of this request raised
    faults,             \* persistence operations that have raised so far
    deleted,            \* whether another client of the database has deleted the item
    stale_write,        \* whether a commit has flushed changes of the item, deleted
    \* the distribute route (routes/content.py), request after request
    logs,       \* table distribution_log as committed: logs[id]
    dreq        \* the environment, and the last distribute request with its response

localVars == <<ltext, lanalysis, lbundle, lpc, gemini_key, use_gemini, response, met_parts,
               calls, sent, last_request, rejected, retrieval, logs, dreq>>
pipeVars == <<api_key, use_huggingface, now, rows, pc, cid, obj, analysis_results,
              attempt, sentiment_result, requests, nltk_data, db_failed, faults,
              deleted, stale_write>>
vars == <<ltext, lanalysis, lbundle, lpc, gemini_key, use_gemini, response, met_parts,
          calls, sent, last_request, rejected, retrieval, api_key, use_huggingface, now, rows, pc, cid,
          obj, analysis_results, attempt, sentiment_result, requests, nltk_data, db_failed,
          faults, deleted, stale_write, logs, dreq>>

(***************************************************************************)
(* Bounds of the model.                                                    *)
(***************************************************************************)
MaxTail == 2     \* free words of a text, after its filler prefix
MaxFill == 11    \* distinct filler words that may open a text
MaxUploads == 1  \* uploads the server takes
MaxFaults == 2   \* persistence operations that may raise
MaxCalls == 2    \* calls of analyze_content on one processor
MaxRows == 3     \* rows of the table retrieve_context reads
MaxLimit == 2    \* the limit retrieve_context is called with
MaxRequests == 2 \* distribute requests the server takes

(***************************************************************************)
(* Python built-ins.                                                       *)
(***************************************************************************)
Min(a, b) == IF a < b THEN a ELSE b

\* s[:n] on a string or a list
Take(s, n) == SubSeq(s, 1, Min(n, Len(s)))

\* Python None (JSON null), for the string-typed fields that may hold it
None == "null"

\* the outcome of a call or an expression: a value, or a raised exception
Ok(v) == [ok |-> TRUE, v |-> v]
Raise(kind) == [ok |-> FALSE, v |-> kind]

\* list[i - 1]: IndexError outside the list
Subscript(list, i) == IF i \in DOMAIN list THEN Ok(list[i]) ELSE Raise("IndexError")

RECURSIVE JoinStr(_, _)
\* sep.join(parts)
JoinStr(parts, sep) ==
    IF parts = <<>> THEN ""
    ELSE IF Len(parts) = 1 THEN parts[1]
    ELSE parts[1] \o sep \o JoinStr(Tail(parts), sep)

UpperChars == <<"A","B","C","D","E","F","G","H","I","J","K","L","M",
                "N","O","P","Q","R","S","T","U","V","W","X","Y","Z">>
LowerChars == <<"a","b","c","d","e","f","g","h","i","j","k","l","m",
                "n","o","p","q","r","s","t","u","v","w","x","y","z">>
DigitChars == <<"0","1","2","3","4","5","6","7","8","9">>

CharAt(s, i) == SubSeq(s, i, i)

LowerChar(c) ==
    IF \E k \in 1..26 : UpperChars[k] = c
    THEN LowerChars[CHOOSE k \in 1..26 : UpperChars[k] = c]
    ELSE c

RECURSIVE LowerFrom(_, _, _)
\* characters i..j of s in lower case, by halves
LowerFrom(s, i, j) ==
    IF i > j THEN ""
    ELSE IF i = j THEN LowerChar(CharAt(s, i))
    ELSE LET mid == (i + j) \div 2
         IN  LowerFrom(s, i, mid) \o LowerFrom(s, mid + 1, j)

\* str.lower()
Lower(s) == LowerFrom(s, 1, Len(s))

\* str.title() of a one-word lower-case string
Title(s) ==
    IF s = "" THEN ""
    ELSE LET c == CharAt(s, 1)
         IN  (IF \E k \in 1..26 : LowerChars[k] = c
              THEN UpperChars[CHOOSE k \in 1..26 : LowerChars[k] = c]
              ELSE c) \o SubSeq(s, 2, Len(s))

IsAlnumChar(c) ==
    \/ \E k \in 1..26 : UpperChars[k] = c \/ LowerChars[k] = c
    \/ \E k \in 1..10 : DigitChars[k] = c

\* str.isalnum()
IsAlnum(s) == Len(s) > 0 /\ \A i \in 1..Len(s) : IsAlnumChar(CharAt(s, i))

\* sub in s
Contains(s, sub) ==
    \E i \in 1..(Len(s) - Len(sub) + 1) : SubSeq(s, i, i + Len(sub) - 1) = sub

IsSpaceChar(c) == c = " " \/ c = "\n"

\* len(s.split())
WordCount(s) ==
    Cardinality({i \in 1..Len(s) :
        /\ ~IsSpaceChar(CharAt(s, i))
        /\ (i = 1 \/ IsSpaceChar(CharAt(s, i - 1)))})

\* str(n) for 0 <= n <= 99
Str(n) ==
    IF n < 10 THEN DigitChars[n + 1]
    ELSE DigitChars[(n \div 10) + 1] \o DigitChars[(n % 10) + 1]

(***************************************************************************)
(* Input texts.  A text is a sequence of sentences, a sentence a non-empty *)
(* sequence of words.                                                      *)
(***************************************************************************)
\* words a text is written with: a stop word, a two-letter word, lexicon
\* words of each kind, and a capitalised takeaway indicator
Vocabulary == {"the", "ai", "growth", "problem", "data", "cool", "market", "Key"}

\* the k-th filler word: distinct, alphanumeric, nine characters long
FillWord(k) == "keyword" \o Str(10 + k)

\* the sentence of the first k filler words, if any
FillSentence(k) == IF k = 0 THEN <<>> ELSE << [i \in 1..k |-> FillWord(i)] >>

FillChoices == {0, 1, MaxFill - 1, MaxFill}

WordSeqs(n) == [1..n -> Vocabulary]

RECURSIVE TextsOfSize(_)
\* every split into sentences of every sequence of n words
TextsOfSize(n) ==
    IF n = 0 THEN {<<>>}
    ELSE UNION {{<<s>> \o t : s \in WordSeqs(m), t \in TextsOfSize(n - m)} : m \in 1..n}

Texts ==
    {FillSentence(k) \o t :
        k \in FillChoices, t \in UNION {TextsOfSize(n) : n \in 0..MaxTail}}

\* one sentence as written
SentStr(ws) == JoinStr(ws, " ") \o "."

\* nltk.sent_tokenize(content)
sent_tokenize(text) == [i \in 1..Len(text) |-> SentStr(text[i])]

\* the string the program receives
Content(text) == JoinStr(sent_tokenize(text), " ")

RECURSIVE word_tokenize_lower(_)
\* nltk.word_tokenize(content.lower()): the words, and each full stop as a token
word_tokenize_lower(text) ==
    IF text = <<>> THEN <<>>
    ELSE [i \in 1..Len(text[1]) |-> Lower(text[1][i])] \o <<".">>
         \o word_tokenize_lower(Tail(text))

(***************************************************************************)
(* LocalAIProcessor.analyze_content                                        *)
(***************************************************************************)
\* stopwords.words('english'), the entries the vocabulary meets
stop_words == {"the", "and", "is", "of", "this", "a", "an", "in", "to"}

positive_words == {"good", "great", "excellent", "amazing", "wonderful", "fantastic",
                   "positive", "success", "growth", "innovative", "effective",
                   "beneficial", "valuable", "important", "significant"}
negative_words == {"bad", "terrible", "awful", "negative", "problem", "issue", "failure",
                   "decline", "poor", "difficult", "challenging", "concerning"}
formal_indicators == {"therefore", "however", "furthermore", "consequently", "analysis",
                      "research", "study", "data"}
casual_indicators == {"really", "pretty", "quite", "totally", "awesome", "cool", "hey", "wow"}

IsFiltered(word) == IsAlnum(word) /\ word \notin stop_words /\ Len(word) > 2

filtered_words(text) == SelectSeq(word_tokenize_lower(text), IsFiltered)

RECURSIVE Distinct(_)
\* the distinct elements of a list, in order of first occurrence (dict insertion order)
Distinct(seq) ==
    IF seq = <<>> THEN <<>>
    ELSE LET rest == Distinct(SubSeq(seq, 1, Len(seq) - 1))
             last == seq[Len(seq)]
         IN  IF \E i \in DOMAIN rest : rest[i] = last THEN rest ELSE Append(rest, last)

CountOf(w, seq) == Cardinality({i \in DOMAIN seq : seq[i] = w})

\* most_common with equal counts in an order that changes from call to call
most_common_by_call(seq, n) ==
    LET d == Distinct(seq)
        cnt == [i \in DOMAIN d |-> CountOf(d[i], seq)]
        ahead(j, i) == IF calls % 2 = 0 THEN j < i ELSE j > i
        before(i) == Cardinality({j \in DOMAIN d :
                        cnt[j] > cnt[i] \/ (cnt[j] = cnt[i] /\ ahead(j, i))})
        sorted == [k \in 1..Len(d) |-> d[CHOOSE i \in DOMAIN d : before(i) = k - 1]]
    IN  Take(sorted, n)

\* [word for word, freq in Counter(seq).most_common(n)]: by descending count,
\* equal counts in insertion order
most_common(seq, n) ==
    LET d == Distinct(seq)
        cnt == [i \in DOMAIN d |-> CountOf(d[i], seq)]
        before(i) == Cardinality({j \in DOMAIN d :
                        cnt[j] > cnt[i] \/ (cnt[j] = cnt[i] /\ j < i)})
        sorted == [k \in 1..Len(d) |-> d[CHOOSE i \in DOMAIN d : before(i) = k - 1]]
    IN  Take(sorted, n)

LexiconCount(words, lexicon) == Cardinality({i \in DOMAIN words : words[i] \in lexicon})

Sentiment(words) ==
    LET pos_count == LexiconCount(words, positive_words)
        neg_count == LexiconCount(words, negative_words)
    IN  IF pos_count > neg_count THEN "positive"
        ELSE IF neg_count > pos_count THEN "negative"
        ELSE "neutral"

Tone(words) ==
    LET formal_count == LexiconCount(words, formal_indicators)
        casual_count == LexiconCount(words, casual_indicators)
    IN  IF formal_count > casual_count THEN "professional"
        ELSE IF casual_count > formal_count THEN "casual"
        ELSE "conversational"

MainTheme(keywords) ==
    IF keywords # <<>>
    THEN LET k == Subscript(keywords, 1)
         IN  IF k.ok THEN Ok("Analysis of " \o k.v) ELSE k
    ELSE Ok("Content Analysis")

SummaryShort(sentences, content) ==
    IF sentences # <<>> THEN Subscript(sentences, 1) ELSE Ok(Take(content, 100))

SummaryMedium(sentences, summary_short) ==
    IF Len(sentences) >= 2 THEN JoinStr(Take(sentences, 2), ". ") ELSE summary_short

SummaryLong(sentences, summary_medium) ==
    IF Len(sentences) >= 3 THEN JoinStr(Take(sentences, 3), ". ") ELSE summary_medium

InList(x, list) == \E i \in DOMAIN list : list[i] = x

business_terms == {"business", "company", "market", "strategy", "revenue", "profit", "management"}
tech_terms == {"technology", "software", "digital", "ai", "data", "system", "platform"}

determine_audience(keywords, tone) ==
    IF \E term \in business_terms : InList(term, keywords)
        THEN "Business professionals and entrepreneurs"
    ELSE IF \E term \in tech_terms : InList(term, keywords)
        THEN "Technology enthusiasts and professionals"
    ELSE IF tone = "professional"
        THEN "Professional audience seeking insights"
    ELSE "General audience interested in the topic"

takeaway_indicators == {"important", "key", "essential", "crucial", "significant", "main", "primary"}

extract_takeaways(sentences, keywords) ==
    LET hit(s) == \E ind \in takeaway_indicators : Contains(Lower(s), ind)
        \* str.strip() changes no sentence the tokenizer returns
        takeaways == SelectSeq(Take(sentences, 5), hit)
        first == Subscript(keywords, 1)
        second == IF Len(keywords) > 1 THEN Subscript(keywords, 2) ELSE Ok("the topic")
    IN  IF takeaways # <<>> THEN Ok(Take(takeaways, 3))
        ELSE IF keywords # <<>>
        THEN IF ~first.ok THEN first
             ELSE IF ~second.ok THEN second
             ELSE Ok(Take(<< "Key insights about " \o first.v,
                             "Important considerations regarding " \o second.v,
                             "Valuable information for decision making" >>, 3))
        ELSE Ok(Take(<< "Content provides valuable insights",
                        "Important information for readers",
                        "Useful for understanding the topic" >>, 3))

\* LocalAIProcessor.analyze_content: Ok(the Analysis), or the exception it raises
Local_analyze_content(text) ==
    LET content == Content(text)
        sentences == sent_tokenize(text)
        words == filtered_words(text)
        keywords == most_common(words, 10)
        tone == Tone(words)
        main_theme == MainTheme(keywords)
        summary_short == SummaryShort(sentences, content)
        key_takeaways == extract_takeaways(sentences, keywords)
    IN  IF ~main_theme.ok THEN main_theme
        ELSE IF ~summary_short.ok THEN summary_short
        ELSE IF ~key_takeaways.ok THEN key_takeaways
        ELSE LET summary_medium == SummaryMedium(sentences, summary_short.v)
                 summary_long == SummaryLong(sentences, summary_medium)
             IN  Ok([main_theme |-> main_theme.v,
                     key_topics |-> Take(keywords, 5),
                     keywords |-> Take(keywords, 8),
                     sentiment |-> Sentiment(words),
                     tone |-> tone,
                     target_audience |-> determine_audience(keywords, tone),
                     key_takeaways |-> key_takeaways.v,
                     summary_short |-> summary_short.v,
                     summary_medium |-> summary_medium,
                     summary_long |-> summary_long,
                     suggested_formats |-> <<"social_post", "email_snippet",
                                             "short_article", "infographic_data">>])

(***************************************************************************)
(* LocalAIProcessor.repurpose_content                                      *)
(***************************************************************************)
\* dict.get(key, default)
Get(d, key, default) == IF key \in DOMAIN d THEN d[key] ELSE default

\* stand-ins for the emoji of the templates, each as many code points long
EmojiBulb == "~bl~"
EmojiSpeech == "~sp~"
EmojiSparkle == "~s~"
EmojiBooks == "~bk~"

\* datetime.now().isoformat() at clock value t
IsoFormat(t) == "2025-01-01T00:00:" \o (IF t < 10 THEN "0" ELSE "") \o Str(t)

generate_social_posts_local(theme, keywords, summary, tone) ==
    LET hashtag == IF keywords # <<>> THEN keywords[1] ELSE "content"
        ellipsis == IF Len(summary) > 100 THEN "..." ELSE ""
        linkedin == "Exploring " \o Lower(theme) \o ". " \o summary
                        \o " Key insights that matter for professionals."
        twitter == EmojiBulb \o " " \o theme \o ": " \o Take(summary, 100) \o ellipsis
        facebook == "Sharing some thoughts on " \o Lower(theme) \o ". " \o summary
                        \o " What's your take on this? Let's discuss!"
        instagram == EmojiSparkle \o " Deep dive into " \o Lower(theme) \o " today! "
                        \o EmojiBooks
    IN  << [platform |-> "linkedin",
            text |-> linkedin \o " #" \o hashtag \o " #insights #professional",
            hashtags |-> <<hashtag, "insights", "professional">>,
            character_count |-> Len(linkedin)],
           [platform |-> "twitter",
            text |-> twitter \o " #" \o hashtag \o " #insights",
            hashtags |-> <<hashtag, "insights">>,
            character_count |-> Len(twitter)],
           [platform |-> "facebook",
            text |-> facebook \o " " \o EmojiSpeech,
            hashtags |-> <<hashtag>>,
            character_count |-> Len(facebook)],
           [platform |-> "instagram",
            text |-> instagram \o "\n\n" \o summary \o "\n\n#" \o hashtag
                        \o " #insights #learning #growth",
            hashtags |-> <<hashtag, "insights", "learning", "growth">>,
            character_count |-> Len(instagram \o " " \o summary)] >>

generate_email_snippets_local(theme, summary, keywords) ==
    LET teaser == "We've been exploring " \o Lower(theme)
                    \o " and wanted to share some key insights with you."
        promo == "Our latest analysis on " \o Lower(theme) \o " is now available."
    IN  << [type |-> "newsletter_teaser",
            subject |-> "New insights on " \o Lower(theme),
            content |-> teaser \o "\n\n" \o summary
                \o "\n\nThis analysis reveals important considerations that could impact your approach to this topic.",
            cta |-> "Read Full Analysis",
            word_count |-> WordCount(teaser \o " " \o summary)],
           [type |-> "promotional",
            subject |-> "Don't miss: Key findings about " \o Lower(theme),
            content |-> promo \o "\n\n" \o summary
                \o "\n\nDiscover actionable insights that can help you make informed decisions.",
            cta |-> "Get Full Report",
            word_count |-> WordCount(promo \o " " \o summary)] >>

generate_short_article_local(theme, text, analysis) ==
    LET keywords == Get(analysis, "keywords", <<>>)
        takeaways == Get(analysis, "key_takeaways", <<>>)
    IN  [headline |-> "Understanding " \o theme \o ": Key Insights and Implications",
         introduction |-> "In today's rapidly evolving landscape, " \o Lower(theme)
             \o " has become increasingly important. Our analysis reveals several key considerations that deserve attention.",
         main_content |-> "The examination of " \o Lower(theme) \o " shows that "
             \o JoinStr(Take(keywords, 3), ", ") \o " are central themes. "
             \o (IF takeaways # <<>> THEN takeaways[1]
                 ELSE "The content provides valuable insights.")
             \o " This analysis helps us understand the broader implications and potential applications.",
         conclusion |-> "These insights about " \o Lower(theme)
             \o " provide a foundation for informed decision-making. Understanding these key aspects can help guide future strategies and approaches.",
         word_count |-> 250,
         reading_time |-> "2 min read"]

generate_infographic_data_local(theme, keywords, analysis) ==
    [title |-> "Key Insights: " \o theme,
     statistics |-> <<
        [label |-> "Main Focus", value |-> theme, icon_suggestion |-> "target"],
        [label |-> "Key Topics", value |-> Str(Len(keywords)), icon_suggestion |-> "list"],
        [label |-> "Sentiment", value |-> Title(Get(analysis, "sentiment", "neutral")),
         icon_suggestion |-> "heart"] >>,
     sections |-> <<
        [title |-> "Overview",
         description |-> Get(analysis, "summary_short", "Key insights and analysis")],
        [title |-> "Key Topics",
         description |-> "Focus areas: " \o JoinStr(Take(keywords, 3), ", ")],
        [title |-> "Target Audience",
         description |-> Get(analysis, "target_audience", "General audience")] >>,
     cta |-> "Learn More",
     image_description |-> "Infographic displaying key insights and statistics about " \o theme,
     image_url |-> None]

Local_rag_metadata(t) ==
    [context_used |-> FALSE,
     context_length |-> 0,
     generation_timestamp |-> IsoFormat(t),
     local_processing |-> TRUE]

\* repurpose_content writing social posts only for an Analysis with keywords
Local_repurpose_keyworded(text, analysis, t) ==
    LET theme == Get(analysis, "main_theme", "content")
        keywords == Get(analysis, "keywords", <<"content">>)
        summary == Get(analysis, "summary_short", Take(Content(text), 100))
        tone == Get(analysis, "tone", "professional")
    IN  Ok([social_posts |-> IF keywords = <<>> THEN <<>>
                ELSE generate_social_posts_local(theme, keywords, summary, tone),
            email_snippets |-> generate_email_snippets_local(theme, summary, keywords),
            short_article |-> generate_short_article_local(theme, text, analysis),
            infographic_data |-> generate_infographic_data_local(theme, keywords, analysis),
            rag_metadata |-> Local_rag_metadata(t)])

\* LocalAIProcessor.repurpose_content at clock value t
Local_repurpose_content(text, analysis, t) ==
    LET theme == Get(analysis, "main_theme", "content")
        keywords == Get(analysis, "keywords", <<"content">>)
        summary == Get(analysis, "summary_short", Take(Content(text), 100))
        tone == Get(analysis, "tone", "professional")
    IN  Ok([social_posts |-> generate_social_posts_local(theme, keywords, summary, tone),
            email_snippets |-> generate_email_snippets_local(theme, summary, keywords),
            short_article |-> generate_short_article_local(theme, text, analysis),
            infographic_data |-> generate_infographic_data_local(theme, keywords, analysis),
            rag_metadata |-> Local_rag_metadata(t)])

(***************************************************************************)
(* HuggingFaceProcessor                                                    *)
(***************************************************************************)
\* s.startswith(prefix)
StartsWith(s, prefix) == Len(s) >= Len(prefix) /\ SubSeq(s, 1, Len(prefix)) = prefix

\* values of HUGGINGFACE_API_KEY: unset, the placeholder of the sample .env, a token
ApiKeys == {None, "your_huggingface_api_key_here", "hf_token"}

\* __init__ taking any key that is set
HF_init_unprefixed(key) == key # None /\ key # ""

\* __init__: whether the Hugging Face backend is used
HF_init(key) == key # None /\ key # "" /\ StartsWith(key, "hf_")

\* what response.json() returns, or that it raises
NoResult == [kind |-> "none"]
Labels(top) ==
    << [label |-> IF top = "negative" THEN "positive" ELSE "negative", score |-> 100],
       [label |-> top, score |-> 800],
       [label |-> "neutral", score |-> 100] >>
Bodies ==
    {[kind |-> "nested", labels |-> Labels(top)] : top \in {"positive", "negative", "LABEL_1"}}
    \cup {[kind |-> "flat", labels |-> Labels("positive")],
          [kind |-> "empty"], [kind |-> "dict"], [kind |-> "malformed"]}

\* what one requests.post may meet
Responses ==
    {[status |-> 200, body |-> b] : b \in Bodies}
    \cup {[status |-> st] : st \in {503, 401, 429}}
    \cup {[status |-> 0, raised |-> e] : e \in {"Timeout", "ConnectionError"}}

\* the condition a response meets, as _query_huggingface tells them apart
Condition(resp) ==
    IF resp.status = 0 THEN resp.raised
    ELSE IF resp.status = 200
         THEN (IF resp.body.kind = "malformed" THEN "bad_json" ELSE "ok")
    ELSE IF resp.status = 503 THEN "loading"
    ELSE "http_error"

\* a loop that goes on after every request without a result
Retried_any(resp) == Condition(resp) # "ok"

\* whether the loop of _query_huggingface goes on to another attempt
Retried(resp) == Condition(resp) \in {"loading", "Timeout"}

\* max(labels, key=lambda x: x['score']): the first of the highest score
MaxByScore(labels) ==
    labels[CHOOSE i \in DOMAIN labels :
        /\ \A j \in DOMAIN labels : labels[j].score <= labels[i].score
        /\ \A j \in 1..(i - 1) : labels[j].score < labels[i].score]

\* the sentiment analyze_content reads from the backend's answer
HF_sentiment(result) ==
    IF result.kind = "nested"
    THEN LET sentiment_label == Lower(MaxByScore(result.labels).label)
         IN  IF Contains(sentiment_label, "positive") THEN Ok("positive")
             ELSE IF Contains(sentiment_label, "negative") THEN Ok("negative")
             ELSE Ok("neutral")
    ELSE IF result.kind = "flat" THEN Raise("TypeError")
    ELSE Ok("neutral")

\* local_processor.analyze_content where the tokenizer data may be missing:
\* nltk.sent_tokenize then raises LookupError
LocalAnalyze(text, nltk) ==
    IF nltk THEN Local_analyze_content(text) ELSE Raise("LookupError")

\* HuggingFaceProcessor.analyze_content once _query_huggingface has returned
HF_analyze_content(text, result, nltk) ==
    LET sentiment == HF_sentiment(result)
        local_analysis == LocalAnalyze(text, nltk)
    IN  IF sentiment.ok /\ local_analysis.ok
        THEN Ok([ai_provider |-> "huggingface"]
                @@ [local_analysis.v EXCEPT !.sentiment = sentiment.v])
        ELSE LocalAnalyze(text, nltk)

max_retries == 3

\* _query_huggingface retrying without counting its attempts
query_huggingface_uncounted(a, resp) ==
    IF Condition(resp) = "ok"
    THEN [done |-> TRUE, result |-> resp.body, attempt |-> a]
    ELSE IF Retried(resp)
    THEN [done |-> FALSE, result |-> NoResult, attempt |-> a]
    ELSE [done |-> TRUE, result |-> NoResult, attempt |-> a]

\* one pass of the loop of _query_huggingface at attempt a, meeting resp:
\* whether the function returns, what it returns, and the next attempt
query_huggingface_step(a, resp) ==
    IF Condition(resp) = "ok"
    THEN [done |-> TRUE, result |-> resp.body, attempt |-> a]
    ELSE IF Retried(resp)
    THEN [done |-> a + 1 >= max_retries, result |-> NoResult, attempt |-> a + 1]
    ELSE [done |-> TRUE, result |-> NoResult, attempt |-> a]

\* time.sleep(10) while the model loads
model_loading_wait == 10

\* the seconds _query_huggingface sleeps once a request has met resp
Slept(resp) == IF Condition(resp) = "loading" THEN model_loading_wait ELSE 0

\* no request yet
NoRequest == [none |-> TRUE]

\* what a request met, its body left out
Met(resp) == IF resp.status = 200 THEN [status |-> 200] ELSE resp

\* created_at.strftime('%Y-%m-%d')
DateStr(t) == SubSeq(IsoFormat(t), 1, 10)

\* the query without its filter on the id
RecentIds_unfiltered(table, exclude, n) ==
    Take([k \in 1..Len(table) |-> Len(table) + 1 - k], n)

\* Content.query.order_by(created_at.desc()).filter(id != exclude).limit(n).all()
RecentIds(table, exclude, n) ==
    LET ids == SelectSeq([k \in 1..Len(table) |-> Len(table) + 1 - k],
                         LAMBDA i : i # exclude)
    IN  Take(ids, n)

FormatArticle(article) ==
    "[Previous Article - " \o DateStr(article.created_at) \o "]\n"
    \o "Title: " \o article.title \o "\n"
    \o "Content: " \o Take(Content(article.original_content), 800) \o "\n"
    \o "---"

\* no call of retrieve_context
NoRetrieval == [none |-> TRUE]

\* what a query of the table meets: it returns, it raises, or (outside a
\* Flask application context) it is not made
Queries == {"ok", "raises", "no_app_context"}

\* a returned context: the rows its blocks were made of, and the string
Retrieved(path, ids, blocks) ==
    [path |-> path, ids |-> ids, context |-> JoinStr(blocks, "\n\n")]

\* the try block of HuggingFaceProcessor.retrieve_context
HF_retrieve_tried(table, exclude_content_id, limit, query) ==
    IF query = "raises" THEN Raise("OperationalError")
    ELSE IF query = "no_app_context" THEN Ok(Retrieved("no_app_context", <<>>, <<>>))
    ELSE LET recent_articles == RecentIds(table, exclude_content_id, limit * 2)
             kept == SelectSeq(Take(recent_articles, limit),
                        LAMBDA i : Len(Content(table[i].original_content)) > 100)
         IN  Ok(Retrieved("recent", kept,
                          [k \in 1..Len(kept) |-> FormatArticle(table[kept[k]])]))

\* retrieve_context letting the exception of its query through
HF_retrieval_unhandled(table, exclude_content_id, limit, query) ==
    HF_retrieve_tried(table, exclude_content_id, limit, query)

\* HuggingFaceProcessor.retrieve_context: its outcome
HF_retrieval(table, exclude_content_id, limit, query) ==
    LET tried == HF_retrieve_tried(table, exclude_content_id, limit, query)
    IN  IF tried.ok THEN tried ELSE Ok(Retrieved("failed", <<>>, <<>>))

\* HuggingFaceProcessor.retrieve_context; query_ok: whether the query succeeds
HF_retrieve_context(table, exclude_content_id, limit, query_ok) ==
    HF_retrieval(table, exclude_content_id, limit,
                 IF query_ok THEN "ok" ELSE "raises").v.context

\* OpenAIProcessor.retrieve_context: its outcome
OpenAI_retrieval(table, exclude_content_id, limit, query) ==
    IF query # "ok" THEN Ok(Retrieved(IF query = "raises" THEN "failed" ELSE query,
                                      <<>>, <<>>))
    ELSE LET recent_articles == RecentIds(table, exclude_content_id, limit * 2)
             kept == SelectSeq(Take(recent_articles, limit),
                        LAMBDA i : Len(Content(table[i].original_content)) > 100)
         IN  Ok(Retrieved("recent", kept,
                          [k \in 1..Len(kept) |-> FormatArticle(table[kept[k]])]))

\* HuggingFaceProcessor.repurpose_content with the backend in use
HF_repurpose_content(text, analysis, context, t) ==
    LET theme == Get(analysis, "main_theme", "content")
        summary == Get(analysis, "summary_short", Take(Content(text), 100))
    IN  Ok([social_posts |-> generate_social_posts_local(theme,
                Get(analysis, "keywords", <<"content">>), summary,
                Get(analysis, "tone", "professional")),
            email_snippets |-> generate_email_snippets_local(theme, summary,
                Get(analysis, "keywords", <<>>)),
            short_article |-> generate_short_article_local(theme, text, analysis),
            infographic_data |-> generate_infographic_data_local(theme,
                Get(analysis, "keywords", <<>>), analysis),
            rag_metadata |-> [context_used |-> Len(context) > 0,
                              context_length |-> Len(context),
                              generation_timestamp |-> IsoFormat(t),
                              ai_provider |-> "huggingface"]])

(***************************************************************************)
(* AIProcessor.analyze_content (Gemini).  A response text is a sequence of *)
(* tokens: a code fence with or without its language tag, a line break,    *)
(* prose, or one JSON value.                                               *)
(***************************************************************************)
GeminiKeys == {None, "your_gemini_api_key_here", "AIza-key"}

\* AIProcessor.__init__; configured: whether genai.configure returned
Gemini_init(key, configured) ==
    key # None /\ key # "" /\ key # "your_gemini_api_key_here" /\ configured

\* the opening fence with its json tag, and the bare fence
FenceJson == [t |-> "fence_json"]
Fence == [t |-> "fence"]
Newline == [t |-> "\n"]
Prose == [t |-> "prose"]
Json(v) == [t |-> "json", v |-> v]

\* an Analysis as the prompt asks for it, and a JSON object short of fields
RemoteAnalysis ==
    [main_theme |-> "AI in Healthcare",
     key_topics |-> <<"diagnosis", "care">>,
     keywords |-> <<"ai", "health", "data">>,
     sentiment |-> "positive",
     tone |-> "professional",
     target_audience |-> "Clinicians",
     key_takeaways |-> <<"AI supports diagnosis.">>,
     summary_short |-> "AI is transforming healthcare.",
     summary_medium |-> "AI is transforming healthcare.",
     summary_long |-> "AI is transforming healthcare.",
     suggested_formats |-> <<"social_post", "email_snippet">>]
PartialAnalysis == [main_theme |-> "AI in Healthcare", keywords |-> <<"ai">>]

GeminiTexts ==
    {<<Json(RemoteAnalysis)>>,
     <<Json(PartialAnalysis)>>,
     <<Newline, Json(RemoteAnalysis), Newline>>,
     <<FenceJson, Newline, Json(RemoteAnalysis), Newline, Fence>>,
     <<FenceJson, Newline, Json(RemoteAnalysis)>>,
     <<Fence, Newline, Json(RemoteAnalysis), Newline, Fence>>,
     <<Prose, Newline, Json(RemoteAnalysis)>>,
     <<FenceJson, Newline, Prose, Newline, Fence>>,
     <<Prose>>,
     <<Fence>>,
     <<>>}

\* str.strip()
Strip(r) ==
    LET kept == {i \in 1..Len(r) : r[i] # Newline}
    IN  IF kept = {} THEN <<>>
        ELSE SubSeq(r, CHOOSE i \in kept : \A j \in kept : i <= j,
                       CHOOSE i \in kept : \A j \in kept : j <= i)

\* the fence stripping of analyze_content
strip_fences(text) ==
    LET result == Strip(text)
        opened == IF result # <<>> /\ result[1] = FenceJson THEN Tail(result) ELSE result
    IN  IF opened # <<>> /\ opened[Len(opened)] = Fence
        THEN SubSeq(opened, 1, Len(opened) - 1)
        ELSE opened

\* json.loads: one JSON value, white space around it allowed
json_loads(text) ==
    LET value == Strip(text)
    IN  IF Len(value) = 1 /\ value[1].t = "json" THEN Ok(value[1].v)
        ELSE Raise("JSONDecodeError")

\* AIProcessor.analyze_content; resp: what the try block meets up to
\* response.text, an exception of retrieve_context or generate_content included
Gemini_analyze_content(text, use, resp, nltk) ==
    IF ~use THEN LocalAnalyze(text, nltk)
    ELSE IF "raised" \in DOMAIN resp THEN LocalAnalyze(text, nltk)
    ELSE LET parsed == json_loads(strip_fences(resp.text))
         IN  IF parsed.ok THEN parsed ELSE LocalAnalyze(text, nltk)

(***************************************************************************)
(* AIProcessor.retrieve_context (Gemini), its ranking and its fallback     *)
(***************************************************************************)
\* a JSON array of numbers, and one of strings
JsonArray(v) == [t |-> "json", v |-> v, open |-> "["]
JsonStrings(v) == [t |-> "json", strings |-> v, open |-> "["]

\* what the ranking request may meet
Rankings ==
    {[text |-> <<JsonArray(v)>>] :
        v \in {<<>>, <<1>>, <<2, 1>>, <<3, 1, 2>>, <<1, 1>>, <<0, 9>>}}
    \cup {[text |-> <<JsonStrings(<<"2", "1">>)>>],
          [text |-> <<FenceJson, Newline, JsonArray(<<2, 1>>), Newline, Fence>>],
          [text |-> <<JsonArray(<<2>>), Prose, JsonArray(<<1>>)>>],
          [text |-> <<Prose>>],
          [raised |-> "ResourceExhausted"]}

\* result.startswith('[') and result.endswith(']')
Bracketed(result) ==
    /\ result # <<>>
    /\ "open" \in DOMAIN result[1]
    /\ "open" \in DOMAIN result[Len(result)]

\* the try block of _rank_context_relevance once there are more candidates
\* than limit; Raise("unparsed") stands for leaving the block without a
\* return, and comparing a rank that is a string with 1 raises TypeError
rank_tried(candidates, limit, ranking) ==
    IF "raised" \in DOMAIN ranking THEN Raise(ranking.raised)
    ELSE LET result == Strip(ranking.text)
         IN  IF ~Bracketed(result) THEN Raise("unparsed")
             ELSE IF Len(result) = 1 /\ "strings" \in DOMAIN result[1]
             THEN (IF Take(result[1].strings, limit) # <<>>
                   THEN Raise("TypeError") ELSE Ok(<<>>))
             ELSE LET rankings == json_loads(result)
                  IN  IF ~rankings.ok THEN rankings
                      ELSE LET valid == SelectSeq(Take(rankings.v, limit),
                                    LAMBDA rank : 1 <= rank /\ rank <= Len(candidates))
                           IN  Ok([k \in 1..Len(valid) |-> candidates[valid[k]]])

\* _rank_context_relevance
rank_context_relevance(candidates, limit, ranking) ==
    IF Len(candidates) <= limit THEN candidates
    ELSE LET ranked == rank_tried(candidates, limit, ranking)
         IN  IF ranked.ok THEN ranked.v ELSE Take(candidates, limit)

\* a block of _simple_context_retrieval
SimpleArticle(a) ==
    "Title: " \o a.title \o "\nContent: " \o Take(Content(a.original_content), 500) \o "..."

\* _simple_context_retrieval keeping no limit
simple_context_unlimited(table, exclude_content_id, limit, requery) ==
    IF requery = "raises" THEN Ok(Retrieved("failed", <<>>, <<>>))
    ELSE LET articles == RecentIds(table, exclude_content_id, Len(table))
             kept == SelectSeq(articles, LAMBDA i : Content(table[i].original_content) # "")
         IN  Ok(Retrieved("fallback", kept,
                          [k \in 1..Len(kept) |-> SimpleArticle(table[kept[k]])]))

\* _simple_context_retrieval; requery: what its query meets
simple_context_retrieval(table, exclude_content_id, limit, requery) ==
    IF requery = "raises" THEN Ok(Retrieved("failed", <<>>, <<>>))
    ELSE LET articles == RecentIds(table, exclude_content_id, limit)
             kept == SelectSeq(articles, LAMBDA i : Content(table[i].original_content) # "")
         IN  Ok(Retrieved("fallback", kept,
                          [k \in 1..Len(kept) |-> SimpleArticle(table[kept[k]])]))

\* the try block of AIProcessor.retrieve_context
Gemini_retrieve_tried(table, exclude_content_id, limit, query, ranking) ==
    IF query = "raises" THEN Raise("OperationalError")
    ELSE IF query = "no_app_context" THEN Ok(Retrieved("no_app_context", <<>>, <<>>))
    ELSE LET recent_articles == RecentIds(table, exclude_content_id, limit * 2)
             context_candidates == SelectSeq(recent_articles,
                        LAMBDA i : Len(Content(table[i].original_content)) > 100)
             relevant_context == rank_context_relevance(context_candidates, limit, ranking)
         IN  Ok(Retrieved(IF Len(context_candidates) <= limit THEN "recent"
                          ELSE IF rank_tried(context_candidates, limit, ranking).ok
                               THEN "ranked" ELSE "unranked",
                          relevant_context,
                          [k \in 1..Len(relevant_context) |->
                                FormatArticle(table[relevant_context[k]])]))

\* AIProcessor.retrieve_context: its outcome
Gemini_retrieval(table, exclude_content_id, limit, query, requery, ranking) ==
    LET tried == Gemini_retrieve_tried(table, exclude_content_id, limit, query, ranking)
    IN  IF tried.ok THEN tried
        ELSE simple_context_retrieval(table, exclude_content_id, limit, requery)

(***************************************************************************)
(* AIProcessor.repurpose_content (Gemini): four sub-generations, each with *)
(* its own request.  A JSON object read with items() is the sequence of    *)
(* its members in document order.                                          *)
(***************************************************************************)
PartNames == {"social_posts", "email_snippets", "short_article", "infographic_data"}

\* no sub-generation has run
NoParts == [none |-> TRUE]

\* what the prompts ask for, and a social post short of its text
RemoteSocial ==
    << [key |-> "linkedin",
        data |-> [text |-> "AI supports clinicians at the bedside.",
                  hashtags |-> <<"ai", "health">>]],
       [key |-> "twitter", data |-> [text |-> "AI in care."]] >>
UntextedSocial == << [key |-> "linkedin", data |-> [hashtags |-> <<"ai">>]] >>
RemoteEmail ==
    << [key |-> "newsletter_teaser",
        data |-> [subject |-> "AI in care", content |-> "AI supports clinicians.",
                  cta |-> "Read on"]] >>
RemoteArticle ==
    [headline |-> "AI at the bedside", introduction |-> "AI is here.",
     main_content |-> "AI supports diagnosis.", conclusion |-> "Plan for it.",
     word_count |-> 320, reading_time |-> "2 min read"]
RemoteInfographic ==
    [title |-> "AI in care",
     statistics |-> << [label |-> "Hospitals", value |-> "40%", icon_suggestion |-> "chart"] >>,
     sections |-> << [title |-> "Diagnosis", description |-> "Faster reads"] >>,
     cta |-> "Learn More"]

\* what the request of one sub-generation may meet, its answer carrying value
PartResponses(value) ==
    {[text |-> <<Json(value)>>],
     [text |-> <<FenceJson, Newline, Json(value), Newline, Fence>>],
     [text |-> <<Prose>>],
     [raised |-> "ResourceExhausted"]}

PartsMet ==
    [social_posts : PartResponses(RemoteSocial) \cup {[text |-> <<Json(UntextedSocial)>>]},
     email_snippets : PartResponses(RemoteEmail),
     short_article : PartResponses(RemoteArticle),
     infographic_data : PartResponses(RemoteInfographic)]

\* generate_content, response.text, the fence stripping and json.loads
loaded(resp) ==
    IF "raised" \in DOMAIN resp THEN Raise(resp.raised)
    ELSE json_loads(strip_fences(resp.text))

\* the try block of _generate_social_posts
social_posts_tried(resp) ==
    LET posts_data == loaded(resp)
    IN  IF ~posts_data.ok THEN posts_data
        ELSE IF \E i \in DOMAIN posts_data.v : "text" \notin DOMAIN posts_data.v[i].data
        THEN Raise("KeyError")
        ELSE Ok([i \in DOMAIN posts_data.v |->
                    [platform |-> posts_data.v[i].key,
                     text |-> posts_data.v[i].data.text,
                     hashtags |-> Get(posts_data.v[i].data, "hashtags", <<>>),
                     character_count |-> Len(posts_data.v[i].data.text)]])

\* the try block of _generate_email_snippets
email_snippets_tried(resp) ==
    LET email_data == loaded(resp)
    IN  IF ~email_data.ok THEN email_data
        ELSE IF \E i \in DOMAIN email_data.v :
                    {"subject", "content", "cta"} \ DOMAIN email_data.v[i].data # {}
        THEN Raise("KeyError")
        ELSE Ok([i \in DOMAIN email_data.v |->
                    [type |-> email_data.v[i].key,
                     subject |-> email_data.v[i].data.subject,
                     content |-> email_data.v[i].data.content,
                     cta |-> email_data.v[i].data.cta,
                     word_count |-> WordCount(email_data.v[i].data.content)]])

\* the try block of _generate_short_article
short_article_tried(resp) == loaded(resp)

\* the try block of _generate_infographic_data
infographic_data_tried(analysis, resp) ==
    LET infographic_data == loaded(resp)
    IN  IF ~infographic_data.ok THEN infographic_data
        ELSE Ok([image_description |->
                    "Infographic design suggestion: "
                    \o Get(infographic_data.v, "title", "Content Analysis")
                    \o " with theme " \o Get(analysis, "main_theme", "")
                    \o ". Include visual elements for statistics and key points.",
                 image_url |-> None] @@ infographic_data.v)

\* the try block of the sub-generation named part
Tried(part, analysis, resp) ==
    CASE part = "social_posts" -> social_posts_tried(resp)
      [] part = "email_snippets" -> email_snippets_tried(resp)
      [] part = "short_article" -> short_article_tried(resp)
      [] part = "infographic_data" -> infographic_data_tried(analysis, resp)

\* the except branch of the sub-generation named part
Placeholder(part, analysis) ==
    CASE part = "social_posts" ->
            << [platform |-> "linkedin",
                text |-> "Interesting insights on "
                    \o Get(analysis, "main_theme", "this topic") \o ". "
                    \o Get(analysis, "summary_short", ""),
                hashtags |-> Take(Get(analysis, "keywords", <<>>), 3),
                character_count |-> 100] >>
      [] part = "email_snippets" ->
            << [type |-> "newsletter_teaser",
                subject |-> "New insights on " \o Get(analysis, "main_theme", "this topic"),
                content |-> Get(analysis, "summary_medium", "Check out our latest content."),
                cta |-> "Read More",
                word_count |-> 20] >>
      [] part = "short_article" ->
            [headline |-> "Understanding " \o Get(analysis, "main_theme", "This Topic"),
             introduction |-> Get(analysis, "summary_long",
                                  "This article explores important concepts."),
             main_content |-> "The main insights and key points are discussed in detail.",
             conclusion |-> "These insights provide valuable understanding for readers.",
             word_count |-> 300,
             reading_time |-> "2 min read"]
      [] part = "infographic_data" ->
            [title |-> "Key Insights: " \o Get(analysis, "main_theme", "Content Analysis"),
             statistics |-> <<
                [label |-> "Key Topics Covered",
                 value |-> Str(Len(Get(analysis, "key_topics", <<>>))),
                 icon_suggestion |-> "chart"],
                [label |-> "Main Takeaways",
                 value |-> Str(Len(Get(analysis, "key_takeaways", <<>>))),
                 icon_suggestion |-> "lightbulb"] >>,
             sections |-> <<
                [title |-> "Main Theme",
                 description |-> Get(analysis, "main_theme", "Content analysis")],
                [title |-> "Target Audience",
                 description |-> Get(analysis, "target_audience", "General audience")] >>,
             cta |-> "Learn More"]

\* _generate_social_posts, _generate_email_snippets, _generate_short_article
\* and _generate_infographic_data: each handles what its own request meets
Generated(part, analysis, resp) ==
    LET tried == Tried(part, analysis, resp)
    IN  IF tried.ok THEN tried.v ELSE Placeholder(part, analysis)

\* AIProcessor.repurpose_content; met: what each sub-generation meets
Gemini_repurpose_content(text, analysis, use, met, context, t) ==
    IF ~use THEN Local_repurpose_content(text, analysis, t)
    ELSE Ok([social_posts |-> Generated("social_posts", analysis, met.social_posts),
             email_snippets |-> Generated("email_snippets", analysis, met.email_snippets),
             short_article |-> Generated("short_article", analysis, met.short_article),
             infographic_data |->
                Generated("infographic_data", analysis, met.infographic_data),
             rag_metadata |-> [context_used |-> Len(context) > 0,
                               context_length |-> Len(context),
                               generation_timestamp |-> IsoFormat(t)]])

(***************************************************************************)
(* models/content.py                                                       *)
(***************************************************************************)
\* a NULL column
Null == [null |-> TRUE]

\* json.dumps(value): the stored text, known by the value it parses back to
json_dumps(value) == [json |-> value]

\* Content(title, original_content): progress is kept in tenths
NewContent(title, text, t) ==
    [title |-> title, original_content |-> text, content_format |-> "text",
     status |-> "pending", progress |-> 0,
     analysis_results |-> Null, repurposed_outputs |-> Null, created_at |-> t]

\* set_analysis_results that stores nothing
set_analysis_results_dropped(content, results) == content

set_analysis_results(content, results) ==
    [content EXCEPT !.analysis_results = json_dumps(results)]

\* set_repurposed_outputs storing nothing
set_repurposed_outputs_dropped(content, outputs) == content

set_repurposed_outputs(content, outputs) ==
    [content EXCEPT !.repurposed_outputs = json_dumps(outputs)]

(***************************************************************************)
(* routes/content.py: upload_content and process_content_sync.  Requests   *)
(* are served one at a time; a request shares with the others only the     *)
(* table, of which it writes its own row.                                  *)
(***************************************************************************)
EmptyText == <<>>
ShortText == << <<"growth", "market">>, <<"the", "Key", "data">> >>
LongText == FillSentence(MaxFill) \o << <<"problem">> >>
PipelineTexts == {EmptyText, ShortText, LongText}

\* the analysis process_content_sync substitutes when analyze_content raises
InlineFallbackAnalysis(content) ==
    [main_theme |-> "Content Analysis",
     keywords |-> <<"content", "information">>,
     sentiment |-> "neutral",
     tone |-> "professional",
     target_audience |-> "General audience",
     key_takeaways |-> <<"Content provides valuable information">>,
     summary_short |-> IF Len(content) > 100 THEN Take(content, 100) \o "..." ELSE content,
     summary_medium |-> IF Len(content) > 200 THEN Take(content, 200) \o "..." ELSE content,
     summary_long |-> IF Len(content) > 300 THEN Take(content, 300) \o "..." ELSE content,
     suggested_formats |-> <<"social_post", "email_snippet">>]

\* the bundle process_content_sync substitutes when repurpose_content raises
InlineFallbackOutputs(analysis, content, t) ==
    LET theme == Get(analysis, "main_theme", "Content")
        summary == Get(analysis, "summary_short", "Content summary")
        linkedin == "Sharing insights about " \o theme \o ". " \o summary
        twitter == "Key points about " \o theme \o ": " \o Take(summary, 80) \o "..."
        facebook == "Exploring " \o theme \o ". " \o summary \o " What are your thoughts?"
        instagram == "*" \o " Deep dive into " \o theme \o "! " \o "#" \o " " \o summary
        teaser == "We've been exploring " \o theme
                    \o " and wanted to share some key insights with you. " \o summary
    IN  [social_posts |-> <<
            [platform |-> "linkedin", text |-> linkedin \o " #professional #insights",
             hashtags |-> <<"professional", "insights">>,
             character_count |-> Len(linkedin)],
            [platform |-> "twitter", text |-> twitter \o " #content",
             hashtags |-> <<"content">>, character_count |-> Len(twitter)],
            [platform |-> "facebook", text |-> facebook,
             hashtags |-> <<"discussion">>, character_count |-> Len(facebook)],
            [platform |-> "instagram", text |-> instagram \o " #insights #learning",
             hashtags |-> <<"insights", "learning">>,
             character_count |-> Len(instagram)] >>,
         email_snippets |-> <<
            [type |-> "newsletter_teaser", subject |-> "New insights on " \o theme,
             content |-> teaser, cta |-> "Read More", word_count |-> WordCount(teaser)] >>,
         short_article |->
            [headline |-> "Understanding " \o theme \o ": Key Insights and Takeaways",
             introduction |-> "In today's rapidly evolving landscape, " \o theme
                 \o " has become increasingly important. " \o summary,
             main_content |-> "The examination of " \o theme
                 \o " reveals several important considerations. "
                 \o Take(content, 400) \o "...",
             conclusion |-> "These insights about " \o theme
                 \o " provide valuable understanding for moving forward.",
             word_count |-> 300, reading_time |-> "2 min read"],
         infographic_data |->
            [title |-> "Key Facts About " \o theme,
             statistics |-> <<
                [label |-> "Main Focus", value |-> theme, icon_suggestion |-> "target"],
                [label |-> "Content Type", value |-> "Analysis", icon_suggestion |-> "chart"] >>,
             sections |-> <<
                [title |-> "Overview", description |-> summary],
                [title |-> "Key Points", description |-> "Important aspects of " \o theme] >>,
             cta |-> "Learn More",
             image_description |-> "Infographic showing key insights about " \o theme,
             image_url |-> None],
         rag_metadata |-> [context_used |-> FALSE, context_length |-> 0,
                           generation_timestamp |-> IsoFormat(t),
                           fallback_used |-> TRUE]]

\* whether a persistence operation succeeds: it may raise while fewer than
\* MaxFaults have
Outcomes(n) == IF n < MaxFaults THEN BOOLEAN ELSE {TRUE}
Counted(n, ok) == IF ok THEN n ELSE n + 1

\* whether a commit of changes of the item succeeds: the UPDATE of a deleted
\* row matches nothing and the commit raises
CommitOutcomes(n) == IF deleted THEN {FALSE} ELSE Outcomes(n)

\* a commit that raises once the row is written
CommittedThenRaised(o, ok) == [rows EXCEPT ![cid] = o]

\* db.session.commit() of pending object o: the row it leaves, and the object
\* the session holds afterwards (a failed commit rolls the session back)
Committed(o, ok) == IF ok THEN [rows EXCEPT ![cid] = o] ELSE rows
Reloaded(o, ok) == IF ok THEN o ELSE rows[cid]

\* a row an earlier run of the server left in the database file: LongText,
\* processed by the local engine
StoredItem ==
    LET content == NewContent("Title", LongText, 0)
        analysis == Local_analyze_content(LongText).v
        outputs == Local_repurpose_content(LongText, analysis, 0).v
    IN  [set_repurposed_outputs(set_analysis_results(content, analysis), outputs)
            EXCEPT !.progress = 10, !.status = "completed"]
StoredTables == {<<>>, <<StoredItem>>}

\* where process_content_sync goes when its analysis try block raises,
\* when its repurposing try block raises, and when anything else does
AnalysisUnhandled == "critical"
AnalysisHandler == "analysis_error"
RepurposeHandler == "repurpose_error"
OuterHandler == "critical"

PipeInit ==
    /\ api_key \in ApiKeys
    /\ use_huggingface = HF_init(api_key)
    /\ nltk_data \in BOOLEAN
    /\ now = 0
    /\ rows \in StoredTables
    /\ pc = "idle"
    /\ cid = 0
    /\ obj = Null
    /\ analysis_results = Null
    /\ attempt = 0
    /\ sentiment_result = NoResult
    /\ requests = {}
    /\ db_failed = FALSE
    /\ faults = 0
    /\ deleted = FALSE
    /\ stale_write = FALSE

\* upload_content up to the call of process_content_sync; an upload whose
\* insert fails answers 500 and leaves nothing behind
Upload ==
    /\ pc = "idle"
    /\ now < MaxUploads
    /\ \E text \in PipelineTexts : rows' = Append(rows, NewContent("Title", text, now))
    /\ now' = now + 1
    /\ cid' = Len(rows) + 1
    /\ pc' = "sync_get"
    /\ UNCHANGED <<api_key, use_huggingface, nltk_data, deleted, stale_write, obj, analysis_results, attempt,
                   sentiment_result, requests, db_failed, faults>>
    /\ UNCHANGED localVars

\* content = Content.query.get(content_id)
SyncGet ==
    /\ pc = "sync_get"
    /\ \E ok \in Outcomes(faults) :
        /\ obj' = IF ok THEN rows[cid] ELSE obj
        /\ pc' = IF ok THEN "step1" ELSE OuterHandler
        /\ db_failed' = (db_failed \/ ~ok)
        /\ faults' = Counted(faults, ok)
    /\ UNCHANGED <<api_key, use_huggingface, nltk_data, deleted, stale_write, now, rows, cid, analysis_results,
                   attempt, sentiment_result, requests>>
    /\ UNCHANGED localVars

\* a commit of pending object o, going to pc value good or to pc value bad
CommitTo(o, good, bad) ==
    \E ok \in CommitOutcomes(faults) :
        /\ rows' = Committed(o, ok)
        /\ obj' = Reloaded(o, ok)
        /\ pc' = IF ok THEN good ELSE bad
        /\ db_failed' = (db_failed \/ ~ok)
        /\ faults' = Counted(faults, ok)
        /\ stale_write' = (stale_write \/ deleted)

\* Step 1: status 'processing', progress 0.1
Step1 ==
    /\ pc = "step1"
    /\ CommitTo([obj EXCEPT !.status = "processing", !.progress = 1], "step2", OuterHandler)
    /\ UNCHANGED <<api_key, use_huggingface, nltk_data, deleted, now, cid, analysis_results,
                   attempt, sentiment_result, requests>>
    /\ UNCHANGED localVars

\* Step 2: progress 0.3
Step2 ==
    /\ pc = "step2"
    /\ CommitTo([obj EXCEPT !.progress = 3], "analyze", OuterHandler)
    /\ UNCHANGED <<api_key, use_huggingface, nltk_data, deleted, now, cid, analysis_results,
                   attempt, sentiment_result, requests>>
    /\ UNCHANGED localVars

\* the rest of the analysis try block once analyze_content has ended with outcome
StoreAnalysis(outcome) ==
    IF outcome.ok
    THEN /\ analysis_results' = outcome.v
         /\ CommitTo([set_analysis_results(obj, outcome.v) EXCEPT !.progress = 6],
                     "repurpose", AnalysisHandler)
    ELSE /\ pc' = AnalysisHandler
         /\ UNCHANGED <<analysis_results, rows, obj, db_failed, faults, stale_write>>

\* analyze_content without the backend: the local engine
AnalyzeLocal ==
    /\ pc = "analyze"
    /\ ~use_huggingface
    /\ StoreAnalysis(LocalAnalyze(obj.original_content, nltk_data))
    /\ UNCHANGED <<api_key, use_huggingface, nltk_data, deleted, now, cid, attempt,
                   sentiment_result, requests>>
    /\ UNCHANGED localVars

\* analyze_content with the backend: one request of _query_huggingface
HFQuery ==
    /\ pc = "analyze"
    /\ use_huggingface
    /\ \E resp \in Responses :
        LET step == query_huggingface_step(attempt, resp)
        IN  /\ requests' = requests \cup {Condition(resp)}
            /\ attempt' = IF step.done THEN 0 ELSE step.attempt
            /\ sentiment_result' = step.result
            /\ pc' = IF step.done THEN "hf_result" ELSE "analyze"
    /\ UNCHANGED <<api_key, use_huggingface, nltk_data, deleted, stale_write, now, rows, cid, obj,
                   analysis_results, db_failed, faults>>
    /\ UNCHANGED localVars

\* analyze_content with the backend, from the return of _query_huggingface
HFAnalyze ==
    /\ pc = "hf_result"
    /\ StoreAnalysis(HF_analyze_content(obj.original_content, sentiment_result, nltk_data))
    /\ sentiment_result' = NoResult
    /\ UNCHANGED <<api_key, use_huggingface, nltk_data, deleted, now, cid, attempt, requests>>
    /\ UNCHANGED localVars

\* except Exception as analysis_error: the inline fallback analysis
AnalysisError ==
    /\ pc = "analysis_error"
    /\ LET fallback == InlineFallbackAnalysis(Content(obj.original_content))
       IN  /\ analysis_results' = fallback
           /\ CommitTo([set_analysis_results(obj, fallback) EXCEPT !.progress = 6],
                       "repurpose", OuterHandler)
    /\ UNCHANGED <<api_key, use_huggingface, nltk_data, deleted, now, cid, attempt,
                   sentiment_result, requests>>
    /\ UNCHANGED localVars

\* the bundle ai_processor.repurpose_content returns
Repurposed(query_ok) ==
    IF use_huggingface
    THEN HF_repurpose_content(obj.original_content, analysis_results,
                              HF_retrieve_context(rows, cid, 4, query_ok), now)
    ELSE Local_repurpose_content(obj.original_content, analysis_results, now)

\* Step 3: repurpose_content, status 'completed', progress 1.0
Repurpose ==
    /\ pc = "repurpose"
    /\ \E query_ok \in {q \in Outcomes(faults) : use_huggingface \/ q} :
        LET outcome == Repurposed(query_ok)
            queried == Counted(faults, query_ok)
        IN  IF outcome.ok
            THEN \E ok \in CommitOutcomes(queried) :
                    LET o == [set_repurposed_outputs(obj, outcome.v)
                                EXCEPT !.progress = 10, !.status = "completed"]
                    IN  /\ rows' = Committed(o, ok)
                        /\ obj' = Reloaded(o, ok)
                        /\ pc' = IF ok THEN "done" ELSE RepurposeHandler
                        /\ db_failed' = (db_failed \/ ~ok \/ ~query_ok)
                        /\ faults' = Counted(queried, ok)
                        /\ stale_write' = (stale_write \/ deleted)
            ELSE /\ pc' = RepurposeHandler
                 /\ db_failed' = (db_failed \/ ~query_ok)
                 /\ faults' = queried
                 /\ UNCHANGED <<rows, obj, stale_write>>
    /\ UNCHANGED <<api_key, use_huggingface, nltk_data, deleted, now, cid, analysis_results,
                   attempt, sentiment_result, requests>>
    /\ UNCHANGED localVars

\* except Exception as repurpose_error: the inline fallback bundle
RepurposeError ==
    /\ pc = "repurpose_error"
    /\ LET fallback == InlineFallbackOutputs(analysis_results,
                            Content(obj.original_content), now)
       IN  CommitTo([set_repurposed_outputs(obj, fallback)
                        EXCEPT !.progress = 10, !.status = "completed"],
                    "done", OuterHandler)
    /\ UNCHANGED <<api_key, use_huggingface, nltk_data, deleted, now, cid, analysis_results,
                   attempt, sentiment_result, requests>>
    /\ UNCHANGED localVars

\* except Exception as e: status 'error', progress 0.0; what this handler
\* itself raises is printed and dropped, and an item that get no longer finds
\* is left alone
Critical ==
    /\ pc = "critical"
    /\ IF deleted
       THEN UNCHANGED <<rows, obj, db_failed, faults>>
       ELSE \E get_ok \in Outcomes(faults), ok \in Outcomes(faults) :
        LET content == IF obj = Null THEN rows[cid] ELSE obj
            o == [content EXCEPT !.status = "error", !.progress = 0]
        IN  /\ get_ok \/ ok
            /\ rows' = IF get_ok THEN Committed(o, ok) ELSE rows
            /\ obj' = IF get_ok THEN Reloaded(o, ok) ELSE obj
            /\ db_failed' = (db_failed \/ ~get_ok \/ ~ok)
            /\ faults' = Counted(faults, get_ok /\ ok)
    /\ pc' = "done"
    /\ UNCHANGED <<api_key, use_huggingface, nltk_data, deleted, stale_write, now, cid, analysis_results,
                   attempt, sentiment_result, requests>>
    /\ UNCHANGED localVars

\* process_content_sync returns and upload_content answers 201
Return ==
    /\ pc = "done"
    /\ pc' = "idle"
    /\ obj' = Null
    /\ analysis_results' = Null
    /\ attempt' = 0
    /\ sentiment_result' = NoResult
    /\ requests' = {}
    /\ db_failed' = FALSE
    /\ UNCHANGED <<api_key, use_huggingface, nltk_data, deleted, stale_write, now, rows, cid, faults>>
    /\ UNCHANGED localVars

\* another client of the database deletes the item while analyze_content or
\* repurpose_content is under way
Delete ==
    /\ pc \in {"analyze", "hf_result", "repurpose"}
    /\ ~deleted
    /\ deleted' = TRUE
    /\ UNCHANGED <<api_key, use_huggingface, nltk_data, stale_write, now, rows, pc, cid, obj,
                   analysis_results, attempt, sentiment_result, requests, db_failed, faults>>
    /\ UNCHANGED localVars

PipeNext ==
    \/ Upload \/ SyncGet \/ Step1 \/ Step2
    \/ AnalyzeLocal \/ HFQuery \/ HFAnalyze \/ AnalysisError
    \/ Repurpose \/ RepurposeError \/ Critical \/ Return

(***************************************************************************)
(* The local engine called directly, as test_local_fallback and            *)
(* test_local_processor call it: analyze_content on a text, then           *)
(* repurpose_content on the Analysis: the one just returned, or any other. *)
(***************************************************************************)
Unset == Raise("unset")

LongSummary ==
    "A summary that runs well past one hundred characters, so that the twitter template has to cut it and append an ellipsis."

\* Analyses handed to repurpose_content directly: every field present and typed
AnalysisInputs ==
    [main_theme : {"AI in Healthcare", ""},
     key_topics : {<<>>},
     keywords : {<<>>, <<"ai">>, <<"ai", "health", "data", "care">>},
     sentiment : {"positive", "negative", "neutral"},
     tone : {"professional", "academic"},
     target_audience : {"Clinicians"},
     key_takeaways : {<<>>, <<"AI supports diagnosis.">>},
     summary_short : {"", "AI is transforming healthcare.", LongSummary},
     summary_medium : {"AI is transforming healthcare."},
     summary_long : {"AI is transforming healthcare."},
     suggested_formats : {<<"social_post">>}]

(***************************************************************************)
(* routes/content.py: distribute_content and distribute_content_async.     *)
(* Requests are served one at a time.                                      *)
(***************************************************************************)
\* no distribute request, no environment
NoDistribution == [none |-> TRUE]

\* LINKEDIN_ACCESS_TOKEN and FACEBOOK_PAGE_ACCESS_TOKEN: unset, or a LinkedIn
\* token marked real
Environments ==
    {[linkedin_token |-> "", facebook_token |-> ""],
     [linkedin_token |-> "real_token", facebook_token |-> ""]}

\* demo_mode = not any([linkedin_token.startswith('real_'), facebook_token.startswith('real_')])
demo_mode(env) ==
    ~(StartsWith(env.linkedin_token, "real_") \/ StartsWith(env.facebook_token, "real_"))

\* DistributionLog(content_id, platform, user_id)
NewDistributionLog(content_id, platform, user_id) ==
    [content_id |-> content_id, platform |-> platform, user_id |-> user_id,
     status |-> "scheduled", post_id |-> None, post_url |-> None, error_message |-> None]

\* the checks that open distribute_content without the check of the status
distribute_checks_open(table, content_id, platforms) ==
    IF content_id \notin DOMAIN table THEN 500 ELSE 0

\* the checks that open distribute_content: the status code of the error they
\* answer with, 0 when they pass.  get_or_404 raises NotFound, which the
\* handler of the route answers with 500.
distribute_checks(table, content_id, platforms) ==
    IF content_id \notin DOMAIN table THEN 500
    ELSE IF table[content_id].status # "completed" THEN 400
    ELSE IF platforms = <<>> THEN 400
    ELSE 0

\* the rows distribute_content adds, one for each platform named
CreatedLogs(content_id, platforms, user_id) ==
    [k \in 1..Len(platforms) |-> NewDistributionLog(content_id, platforms[k], user_id)]

\* DistributionLog.query.filter_by(content_id, platform).first(): the id of
\* the row, 0 for None.  The query has no ORDER BY: the database may answer
\* with the oldest or with the newest matching row.
FirstLog(table, content_id, platform, order) ==
    LET matching == {i \in DOMAIN table : /\ table[i].content_id = content_id
                                          /\ table[i].platform = platform}
    IN  IF matching = {} THEN 0
        ELSE IF order = "asc"
        THEN CHOOSE i \in matching : \A j \in matching : i <= j
        ELSE CHOOSE i \in matching : \A j \in matching : i >= j

\* repurposed.get(key, default) on the value of column repurposed_outputs,
\* which holds the string json.dumps wrote: str has no attribute get
repurposed_get(repurposed, key, default) ==
    IF "json" \in DOMAIN repurposed THEN Raise("AttributeError")
    ELSE Ok(Get(repurposed, key, default))

RECURSIVE MarkFailed(_, _, _, _, _)
\* except Exception as e, of distribute_content_async: for each platform the
\* first log of the item, unless posted, is set 'failed' and committed
MarkFailed(table, content_id, platforms, error, order) ==
    IF platforms = <<>> THEN table
    ELSE LET log == FirstLog(table, content_id, Head(platforms), order)
             marked == IF log # 0 /\ table[log].status # "posted"
                       THEN [table EXCEPT ![log].status = "failed",
                                          ![log].error_message = error]
                       ELSE table
         IN  MarkFailed(marked, content_id, Tail(platforms), error, order)

\* distribute_content_async(content_id, platforms): table distribution_log
\* as it leaves it.  Its print of the number of social posts raises before
\* the environment is read and before the loop over the platforms.
distribute_content_async(table, dlogs, content_id, platforms, order) ==
    IF content_id \notin DOMAIN table THEN dlogs
    ELSE IF ~("json" \in DOMAIN table[content_id].repurposed_outputs) THEN dlogs
    ELSE LET repurposed == table[content_id].repurposed_outputs
             social_posts == repurposed_get(repurposed, "social_posts", <<>>)
         IN  IF ~social_posts.ok
             THEN MarkFailed(dlogs, content_id, platforms,
                             "'str' object has no attribute 'get'", order)
             ELSE dlogs

\* the platforms a request names
PlatformLists ==
    {<<>>, <<"instagram">>, <<"twitter", "instagram">>, <<"instagram", "twitter">>,
     <<"linkedin">>}

\* current_user.id, or the id of the demo user
UserIds == {1, 2}

\* items as the upload pipeline leaves them: not yet processed, failed, completed
DistItems ==
    {NewContent("Title", ShortText, 0),
     [NewContent("Title", ShortText, 0) EXCEPT !.status = "error"],
     StoredItem}
DistTables == {<<a>> : a \in DistItems} \cup {<<a, b>> : a, b \in DistItems}

DistributeInit ==
    /\ rows \in DistTables
    /\ logs = <<>>
    /\ \E env \in Environments :
        dreq = [env |-> env, served |-> 0, content_id |-> 0, platforms |-> <<>>,
                code |-> 0, created |-> {}, invoked |-> FALSE]
    /\ pc = "serving"

\* what the distribute route leaves alone
distOff == <<ltext, lanalysis, lbundle, lpc, gemini_key, use_gemini, response, met_parts,
             calls, sent, last_request, rejected, retrieval, api_key, use_huggingface, now,
             rows, pc, cid, obj, analysis_results, attempt, sentiment_result, requests,
             nltk_data, db_failed, faults, deleted, stale_write>>

\* POST /content/<content_id>/distribute answered with an error: by the
\* checks, or by the handler of the route when the commit of the logs raises
DistributeRefused ==
    /\ pc = "serving"
    /\ dreq.served < MaxRequests
    /\ \E content_id \in 1..(Len(rows) + 1), platforms \in PlatformLists :
        LET code == distribute_checks(rows, content_id, platforms)
        IN  dreq' = [dreq EXCEPT !.served = @ + 1, !.content_id = content_id,
                                 !.platforms = platforms,
                                 !.code = IF code # 0 THEN code ELSE 500,
                                 !.created = {}, !.invoked = FALSE]
    /\ logs' = logs
    /\ UNCHANGED distOff

\* POST /content/<content_id>/distribute answered with 200: the logs are
\* committed and distribute_content_async has run
DistributeAccepted ==
    /\ pc = "serving"
    /\ dreq.served < MaxRequests
    /\ \E content_id \in 1..(Len(rows) + 1), platforms \in PlatformLists,
          user_id \in UserIds, order \in {"asc", "desc"} :
        /\ distribute_checks(rows, content_id, platforms) = 0
        /\ LET committed == logs \o CreatedLogs(content_id, platforms, user_id)
           IN  /\ logs' = distribute_content_async(rows, committed, content_id,
                                                   platforms, order)
               /\ dreq' = [dreq EXCEPT !.served = @ + 1, !.content_id = content_id,
                                       !.platforms = platforms, !.code = 200,
                                       !.created = (Len(logs) + 1)..Len(committed),
                                       !.invoked = TRUE]
    /\ UNCHANGED distOff

DistributeNext == DistributeRefused \/ DistributeAccepted

AdapterIdle ==
    /\ calls = 0
    /\ sent = 0
    /\ last_request = NoRequest
    /\ rejected = FALSE
    /\ retrieval = NoRetrieval
    /\ logs = <<>>
    /\ dreq = NoDistribution

GeminiIdle ==
    /\ gemini_key = None
    /\ use_gemini = FALSE
    /\ response = Unset
    /\ met_parts = NoParts
    /\ AdapterIdle

LocalInit ==
    /\ GeminiIdle
    /\ nltk_data \in BOOLEAN
    /\ ltext \in Texts
    /\ lbundle = Unset
    /\ \/ lpc = "input" /\ lanalysis = Unset
       \/ lpc = "given" /\ ltext = <<>> /\ lanalysis \in {Ok(a) : a \in AnalysisInputs}

\* analysis = processor.analyze_content(test_content)
CallAnalyze ==
    /\ lpc = "input"
    /\ lanalysis' = LocalAnalyze(ltext, nltk_data)
    /\ lpc' = IF lanalysis'.ok THEN "analyzed" ELSE "raised"
    /\ calls' = calls + 1
    /\ UNCHANGED <<ltext, lbundle, gemini_key, use_gemini, response, met_parts,
                   sent, last_request, rejected, retrieval, logs, dreq>>
    /\ UNCHANGED pipeVars

\* processor.analyze_content(test_content) once more, nothing done in between
CallAnalyzeAgain ==
    /\ lpc \in {"analyzed", "raised"}
    /\ lbundle = Unset
    /\ calls \in 1..(MaxCalls - 1)
    /\ lanalysis' = LocalAnalyze(ltext, nltk_data)
    /\ lpc' = IF lanalysis'.ok THEN "analyzed" ELSE "raised"
    /\ calls' = calls + 1
    /\ UNCHANGED <<ltext, lbundle, gemini_key, use_gemini, response, met_parts,
                   sent, last_request, rejected, retrieval, logs, dreq>>
    /\ UNCHANGED pipeVars

\* repurposed = processor.repurpose_content(test_content, analysis)
CallRepurpose ==
    /\ lpc \in {"analyzed", "given"}
    /\ lbundle' = Local_repurpose_content(ltext, lanalysis.v, 0)
    /\ lpc' = IF lbundle'.ok THEN "repurposed" ELSE "raised"
    /\ UNCHANGED <<ltext, lanalysis, gemini_key, use_gemini, response, met_parts,
                   calls, sent, last_request, rejected, retrieval, logs, dreq>>
    /\ UNCHANGED pipeVars

LocalNext == CallAnalyze \/ CallAnalyzeAgain \/ CallRepurpose

(***************************************************************************)
(* AIProcessor called directly, as test_gemini calls it.                   *)
(***************************************************************************)
GeminiInit ==
    /\ nltk_data \in BOOLEAN
    /\ ltext \in PipelineTexts
    /\ gemini_key \in GeminiKeys
    /\ use_gemini \in {Gemini_init(gemini_key, configured) : configured \in BOOLEAN}
    /\ response \in {[text |-> text] : text \in GeminiTexts}
                    \cup {[raised |-> "DeadlineExceeded"]}
    /\ met_parts = NoParts
    /\ AdapterIdle
    /\ lanalysis = Unset
    /\ lbundle = Unset
    /\ lpc = "input"

\* analysis = processor.analyze_content(test_content)
GeminiAnalyze ==
    /\ lpc = "input"
    /\ lanalysis' = Gemini_analyze_content(ltext, use_gemini, response, nltk_data)
    /\ lpc' = IF lanalysis'.ok THEN "analyzed" ELSE "raised"
    /\ sent' = IF use_gemini THEN sent + 1 ELSE sent
    /\ UNCHANGED <<ltext, lbundle, gemini_key, use_gemini, response, met_parts,
                   calls, last_request, rejected, retrieval, logs, dreq>>
    /\ UNCHANGED pipeVars

\* repurposed = processor.repurpose_content(test_content, analysis): outside
\* a Flask application context retrieve_context returns the empty string
GeminiRepurpose ==
    /\ lpc = "analyzed"
    /\ \E met \in IF use_gemini THEN PartsMet ELSE {NoParts} :
        /\ met_parts' = met
        /\ lbundle' = Gemini_repurpose_content(ltext, lanalysis.v, use_gemini, met, "", 0)
    /\ lpc' = IF lbundle'.ok THEN "repurposed" ELSE "raised"
    /\ sent' = IF use_gemini THEN sent + Cardinality(PartNames) ELSE sent
    /\ UNCHANGED <<ltext, lanalysis, gemini_key, use_gemini, response,
                   calls, last_request, rejected, retrieval, logs, dreq>>
    /\ UNCHANGED pipeVars

GeminiNext == GeminiAnalyze \/ GeminiRepurpose

(***************************************************************************)
(* HuggingFaceProcessor called directly, as test_huggingface_processor     *)
(* calls it, and call after call on the one processor the routes share.    *)
(***************************************************************************)
\* HUGGINGFACE_API_KEY: unset, empty, the placeholder, a key of another
\* provider, a token
AdapterKeys == ApiKeys \cup {"", "sk-token"}

\* what a processor called directly leaves alone
adapterOff == <<lpc, gemini_key, use_gemini, response, met_parts, retrieval, now, rows, cid, obj,
                analysis_results, requests, db_failed, faults, deleted, stale_write,
                logs, dreq>>

AdapterInit ==
    /\ api_key \in AdapterKeys
    /\ use_huggingface = HF_init(api_key)
    /\ nltk_data \in BOOLEAN
    /\ ltext \in {ShortText, LongText}
    /\ pc = "call"
    /\ attempt = 0
    /\ sentiment_result = NoResult
    /\ lanalysis = Unset
    /\ lbundle = Unset
    /\ AdapterIdle

\* analyze_content without the backend
AdapterAnalyzeLocal ==
    /\ pc = "call"
    /\ ~use_huggingface
    /\ lanalysis' = LocalAnalyze(ltext, nltk_data)
    /\ pc' = IF lanalysis'.ok THEN "analyzed" ELSE "raised"
    /\ UNCHANGED <<ltext, lbundle, calls, sent, last_request, rejected, api_key,
                   use_huggingface, nltk_data, attempt, sentiment_result>>
    /\ UNCHANGED adapterOff

\* analyze_content with the backend: one request of _query_huggingface
AdapterQuery ==
    /\ pc \in {"call", "query"}
    /\ use_huggingface
    /\ \E resp \in Responses :
        LET step == query_huggingface_step(attempt, resp)
        IN  /\ sent' = sent + 1
            /\ last_request' = [met |-> Met(resp), attempt |-> attempt,
                        slept |-> Slept(resp), again |-> ~step.done]
            /\ rejected' = (rejected \/ resp.status = 401)
            /\ attempt' = IF step.done THEN 0 ELSE step.attempt
            /\ sentiment_result' = step.result
            /\ pc' = IF step.done THEN "result" ELSE "query"
    /\ UNCHANGED <<ltext, lanalysis, lbundle, calls, api_key, use_huggingface, nltk_data>>
    /\ UNCHANGED adapterOff

\* analyze_content with the backend, from the return of _query_huggingface
AdapterAnalyze ==
    /\ pc = "result"
    /\ lanalysis' = HF_analyze_content(ltext, sentiment_result, nltk_data)
    /\ pc' = IF lanalysis'.ok THEN "analyzed" ELSE "raised"
    /\ sentiment_result' = NoResult
    /\ UNCHANGED <<ltext, lbundle, calls, sent, last_request, rejected, api_key,
                   use_huggingface, nltk_data, attempt>>
    /\ UNCHANGED adapterOff

\* repurpose_content: outside a Flask application context retrieve_context
\* returns the empty string
AdapterRepurpose ==
    /\ pc = "analyzed"
    /\ lbundle' = IF use_huggingface
                  THEN HF_repurpose_content(ltext, lanalysis.v, "", 0)
                  ELSE Local_repurpose_content(ltext, lanalysis.v, 0)
    /\ calls' = calls + 1
    /\ pc' = IF calls + 1 < MaxCalls THEN "call" ELSE "over"
    /\ UNCHANGED <<ltext, lanalysis, sent, last_request, rejected, api_key,
                   use_huggingface, nltk_data, attempt, sentiment_result>>
    /\ UNCHANGED adapterOff

AdapterNext == AdapterAnalyzeLocal \/ AdapterQuery \/ AdapterAnalyze \/ AdapterRepurpose

(***************************************************************************)
(* retrieve_context called directly on a table of prior items, as          *)
(* analyze_content and repurpose_content of each variant call it.          *)
(***************************************************************************)
\* a body of more than 800 characters
HugeText == [i \in 1..8 |-> FillSentence(MaxFill)[1]]

\* bodies of stored items: none, up to 100 characters, more, more than 800
Bodies4 == {EmptyText, ShortText, LongText, HugeText}

\* the tables of up to MaxRows items, the i-th created at clock value i
Tables ==
    UNION {{[i \in 1..n |-> NewContent("Article " \o Str(i), body[i], i)] :
                body \in [1..n -> Bodies4]} : n \in 0..MaxRows}

Variants == {"gemini", "huggingface", "openai"}

\* exclude_content_id is None (0 here) or the id of a row
RetrieveInit ==
    /\ rows \in Tables
    /\ pc = "retrieve"
    /\ \E variant \in Variants, limit \in 1..MaxLimit, exclude \in 0..Len(rows) :
            retrieval = [variant |-> variant, limit |-> limit, exclude |-> exclude,
                         query |-> "none", requery |-> "none", outcome |-> Unset]

\* what retrieve_context called directly leaves alone
retrieveOff == <<ltext, lanalysis, lbundle, lpc, gemini_key, use_gemini, response, met_parts,
                 calls, sent, last_request, rejected, api_key, use_huggingface, now, rows,
                 cid, obj, analysis_results, attempt, sentiment_result, requests, nltk_data,
                 db_failed, faults, deleted, stale_write, logs, dreq>>

\* AIProcessor.retrieve_context(content, exclude_content_id, limit)
RetrieveGemini ==
    /\ pc = "retrieve"
    /\ retrieval.variant = "gemini"
    /\ \E query \in Queries, requery \in {"ok", "raises"}, ranking \in Rankings :
        retrieval' = [retrieval EXCEPT
            !.query = query,
            !.requery = IF query = "raises" THEN requery ELSE "none",
            !.outcome = Gemini_retrieval(rows, retrieval.exclude, retrieval.limit,
                                         query, requery, ranking)]
    /\ pc' = "retrieved"
    /\ UNCHANGED retrieveOff

\* HuggingFaceProcessor.retrieve_context(content, exclude_content_id, limit)
RetrieveHF ==
    /\ pc = "retrieve"
    /\ retrieval.variant = "huggingface"
    /\ \E query \in Queries :
        retrieval' = [retrieval EXCEPT
            !.query = query,
            !.outcome = HF_retrieval(rows, retrieval.exclude, retrieval.limit, query)]
    /\ pc' = "retrieved"
    /\ UNCHANGED retrieveOff

\* OpenAIProcessor.retrieve_context(content, exclude_content_id, limit)
RetrieveOpenAI ==
    /\ pc = "retrieve"
    /\ retrieval.variant = "openai"
    /\ \E query \in Queries :
        retrieval' = [retrieval EXCEPT
            !.query = query,
            !.outcome = OpenAI_retrieval(rows, retrieval.exclude, retrieval.limit, query)]
    /\ pc' = "retrieved"
    /\ UNCHANGED retrieveOff

RetrieveNext == RetrieveGemini \/ RetrieveHF \/ RetrieveOpenAI

(***************************************************************************)
(* Specifications                                                          *)
(***************************************************************************)
LocalIdle ==
    /\ ltext = <<>>
    /\ lanalysis = Unset
    /\ lbundle = Unset
    /\ lpc = "off"
    /\ GeminiIdle

PipeIdle ==
    /\ api_key = None
    /\ use_huggingface = FALSE
    /\ now = 0
    /\ rows = <<>>
    /\ pc = "off"
    /\ cid = 0
    /\ obj = Null
    /\ analysis_results = Null
    /\ attempt = 0
    /\ sentiment_result = NoResult
    /\ requests = {}
    /\ db_failed = FALSE
    /\ faults = 0
    /\ deleted = FALSE
    /\ stale_write = FALSE

Init == PipeInit /\ LocalIdle
InitLocal == LocalInit /\ PipeIdle
InitGemini == GeminiInit /\ PipeIdle
InitAdapter ==
    /\ AdapterInit
    /\ lpc = "off" /\ gemini_key = None /\ use_gemini = FALSE /\ response = Unset
    /\ met_parts = NoParts /\ retrieval = NoRetrieval
    /\ now = 0 /\ rows = <<>> /\ cid = 0 /\ obj = Null /\ analysis_results = Null
    /\ requests = {} /\ db_failed = FALSE /\ faults = 0
    /\ deleted = FALSE /\ stale_write = FALSE
InitProviders == InitGemini \/ InitAdapter
InitRetrieve ==
    /\ RetrieveInit
    /\ ltext = <<>> /\ lanalysis = Unset /\ lbundle = Unset /\ lpc = "off"
    /\ gemini_key = None /\ use_gemini = FALSE /\ response = Unset /\ met_parts = NoParts
    /\ calls = 0 /\ sent = 0 /\ last_request = NoRequest /\ rejected = FALSE
    /\ logs = <<>> /\ dreq = NoDistribution
    /\ api_key = None /\ use_huggingface = FALSE /\ nltk_data = TRUE
    /\ now = 0 /\ cid = 0 /\ obj = Null /\ analysis_results = Null
    /\ attempt = 0 /\ sentiment_result = NoResult
    /\ requests = {} /\ db_failed = FALSE /\ faults = 0
    /\ deleted = FALSE /\ stale_write = FALSE
InitDistribute ==
    /\ DistributeInit
    /\ ltext = <<>> /\ lanalysis = Unset /\ lbundle = Unset /\ lpc = "off"
    /\ gemini_key = None /\ use_gemini = FALSE /\ response = Unset /\ met_parts = NoParts
    /\ calls = 0 /\ sent = 0 /\ last_request = NoRequest /\ rejected = FALSE
    /\ retrieval = NoRetrieval
    /\ api_key = None /\ use_huggingface = FALSE /\ nltk_data = TRUE
    /\ now = 0 /\ cid = 0 /\ obj = Null /\ analysis_results = Null
    /\ attempt = 0 /\ sentiment_result = NoResult
    /\ requests = {} /\ db_failed = FALSE /\ faults = 0
    /\ deleted = FALSE /\ stale_write = FALSE
Next == PipeNext
ProvidersNext == GeminiNext \/ AdapterNext
DeletionNext == PipeNext \/ Delete

\* the upload pipeline
Spec == Init /\ [][Next]_vars

\* the upload pipeline, its item open to deletion by another client
SpecDeletion == Init /\ [][DeletionNext]_vars

\* the local engine called directly
SpecLocal == InitLocal /\ [][LocalNext]_vars

\* AIProcessor called directly
SpecGemini == InitGemini /\ [][GeminiNext]_vars

\* HuggingFaceProcessor called directly
SpecAdapter == InitAdapter /\ [][AdapterNext]_vars

\* retrieve_context of each variant called directly
SpecRetrieve == InitRetrieve /\ [][RetrieveNext]_vars

\* the distribute route, request after request
SpecDistribute == InitDistribute /\ [][DistributeNext]_vars

\* either provider variant called directly
SpecProviders == InitProviders /\ [][ProvidersNext]_vars

(***************************************************************************)
(* Properties                                                              *)
(***************************************************************************)
AnalysisFields ==
    {"main_theme", "key_topics", "keywords", "sentiment", "tone", "target_audience",
     "key_takeaways", "summary_short", "summary_medium", "summary_long",
     "suggested_formats"}
StringFields ==
    {"main_theme", "sentiment", "tone", "target_audience",
     "summary_short", "summary_medium", "summary_long"}

\* every Analysis field is there, and none is None
FullyPopulated(analysis) ==
    /\ AnalysisFields \subseteq DOMAIN analysis
    /\ \A f \in StringFields : analysis[f] # None

BundleKeys ==
    {"social_posts", "email_snippets", "short_article", "infographic_data", "rag_metadata"}

\* the bundle stored for the item being served
StoredBundle == rows[cid].repurposed_outputs.json

\* the backend was asked, and every request met HTTP 503 or a timeout
BackendUnavailable == requests # {} /\ requests \subseteq {"loading", "Timeout"}

\* C1: with the Hugging Face provider enabled and every backend request
\* answered by 503 or a timeout, processing ends with status 'completed' and a
\* stored bundle of social_posts, email_snippets, short_article,
\* infographic_data and rag_metadata whose rag_metadata.fallback_used is true.
C1_UnavailableBackendMarksFallback ==
    (pc = "done" /\ use_huggingface /\ BackendUnavailable /\ ~db_failed) =>
        /\ rows[cid].status = "completed"
        /\ BundleKeys \subseteq DOMAIN StoredBundle
        /\ "fallback_used" \in DOMAIN StoredBundle.rag_metadata
        /\ StoredBundle.rag_metadata.fallback_used = TRUE

\* the response of an enabled remote provider did not parse as JSON
InvalidJson ==
    /\ use_gemini
    /\ "text" \in DOMAIN response
    /\ ~json_loads(strip_fences(response.text)).ok

\* C2: when the remote provider is enabled and its analysis response is not
\* valid JSON, analyze_content raises nothing and returns exactly the Analysis
\* LocalAIProcessor.analyze_content computes for the same text.
C2_InvalidJsonYieldsLocalAnalysis ==
    (lpc \in {"analyzed", "raised"} /\ InvalidJson) =>
        /\ lanalysis.ok
        /\ lanalysis.v = Local_analyze_content(ltext).v

\* C3: for any text, the empty one and one with no token left after filtering
\* included, LocalAIProcessor.analyze_content raises nothing and returns all
\* eleven Analysis fields, none of them None, with at most 10 keywords.
C3_LocalAnalysisTotal ==
    (lpc \in {"analyzed", "raised"}) =>
        /\ lanalysis.ok
        /\ FullyPopulated(lanalysis.v)
        /\ Len(lanalysis.v.keywords) <= 10

\* C4: for any Analysis, LocalAIProcessor.repurpose_content returns exactly
\* four social posts, one each for linkedin, twitter, facebook and instagram,
\* exactly two email snippets, a newsletter_teaser and a promotional one, one
\* short_article and one infographic_data.
C4_LocalBundleShape ==
    (lpc = "repurposed") =>
        LET bundle == lbundle.v
            posts == bundle.social_posts
            emails == bundle.email_snippets
        IN  /\ Len(posts) = 4
            /\ {posts[i].platform : i \in DOMAIN posts}
                    = {"linkedin", "twitter", "facebook", "instagram"}
            /\ Len(emails) = 2
            /\ {emails[i].type : i \in DOMAIN emails}
                    = {"newsletter_teaser", "promotional"}
            /\ "short_article" \in DOMAIN bundle
            /\ "infographic_data" \in DOMAIN bundle

\* a bundle was written for an Analysis without keywords and with a long summary
C4_Witness ==
    /\ lpc = "repurposed"
    /\ lanalysis.v.keywords = <<>>
    /\ lanalysis.v.summary_short = LongSummary

\* C5: in every social post LocalAIProcessor.repurpose_content returns,
\* character_count is the length of the post's text.
C5_CharacterCountIsTextLength ==
    (lpc = "repurposed") =>
        \A i \in DOMAIN lbundle.v.social_posts :
            lbundle.v.social_posts[i].character_count
                = Len(lbundle.v.social_posts[i].text)

\* C6: with no provider configured, the bundle the local engine produces has
\* rag_metadata.fallback_used true and rag_metadata.context_used false.
C6_LocalBundleMarksFallback ==
    (pc = "done" /\ ~use_huggingface /\ rows[cid].status = "completed") =>
        /\ "fallback_used" \in DOMAIN StoredBundle.rag_metadata
        /\ StoredBundle.rag_metadata.fallback_used = TRUE
        /\ StoredBundle.rag_metadata.context_used = FALSE

\* a bound on the steps a run of process_content_sync has left
Remaining ==
    CASE pc = "sync_get" -> 11
      [] pc = "step1" -> 10
      [] pc = "step2" -> 9
      [] pc = "analyze" -> 5 + (max_retries - attempt)
      [] pc = "hf_result" -> 5
      [] pc = "analysis_error" -> 4
      [] pc = "repurpose" -> 3
      [] pc = "repurpose_error" -> 2
      [] pc = "critical" -> 1
      [] OTHER -> 0

\* C7: every run of process_content_sync on an existing item comes to its
\* end: each of its steps brings the bound on the steps left down, which is
\* never negative; and when no persistence operation has failed the item is
\* left 'completed', whatever the backend answered.
C7_ProcessingFinishes ==
    /\ [][pc \notin {"idle", "done"} => (Remaining' < Remaining /\ Remaining' >= 0)]_vars
    /\ [](pc = "done" /\ ~db_failed => rows[cid].status = "completed")

\* a run ended 'completed' after a timeout and then an error status of the backend
C7_Witness ==
    /\ pc = "done"
    /\ ~db_failed
    /\ {"Timeout", "http_error"} \subseteq requests
    /\ rows[cid].status = "completed"

\* C8: an item is left in status 'error' only when a persistence operation of
\* its run has failed too: no failure of the provider, nor of the analysis it
\* falls back to, puts it there by itself.
C8_ErrorNeedsPersistenceFailure ==
    (pc # "idle" /\ cid \in DOMAIN rows /\ rows[cid].status = "error") => db_failed

\* a run whose backend request failed ended in status 'error'
C8_Witness ==
    /\ pc = "done"
    /\ rows[cid].status = "error"
    /\ "ConnectionError" \in requests

\* the steps the stored status may take
Forward ==
    {<<"pending", "processing">>, <<"processing", "completed">>,
     <<"pending", "error">>, <<"processing", "error">>}

\* C9: the stored status of an item never goes back to an earlier one of
\* pending, processing, completed, and once 'completed' is stored it stays.
C9_StatusMovesForward ==
    [][\A i \in DOMAIN rows :
        \/ rows'[i].status = rows[i].status
        \/ <<rows[i].status, rows'[i].status>> \in Forward]_vars

\* an upload was served to 'completed' beside an item stored 'completed' before
C9_Witness ==
    /\ pc = "done"
    /\ Len(rows) = 2
    /\ rows[1].status = "completed"
    /\ rows[2].status = "completed"
    /\ db_failed

\* C10: the analysis stored for a completed item has all eleven Analysis
\* fields, none of them None, the inline fallback analysis included.
C10_StoredAnalysisComplete ==
    \A i \in DOMAIN rows :
        rows[i].status = "completed" => FullyPopulated(rows[i].analysis_results.json)

\* whether the sub-generation named part failed, and whether the bundle
\* carries what the provider generated for it
PartFailed(part) == ~Tried(part, lanalysis.v, met_parts[part]).ok
ProviderPart(part) ==
    /\ ~PartFailed(part)
    /\ lbundle.ok
    /\ lbundle.v[part] = Tried(part, lanalysis.v, met_parts[part]).v

\* C11: when one of the four sub-generations of a provider-backed
\* repurpose_content meets a parse or backend error, the call fails as a
\* whole: no part of a returned bundle is provider-generated.
C11_FailedPartFailsCall ==
    (lpc = "repurposed" /\ use_gemini /\ \E p \in PartNames : PartFailed(p))
        => \A q \in PartNames : ~ProviderPart(q)

\* C12: the analysis the analysis step produced is what the repurposing step
\* receives, and the step leaves it alone: while and after the item is
\* repurposed, the analysis stored for it is the analysis handed to
\* repurpose_content, and neither changes across the step.
\* the analysis, in hand and stored, is left as it is
AnalysisKept ==
    /\ analysis_results' = analysis_results
    /\ rows'[cid].analysis_results = rows[cid].analysis_results
C12_AnalysisPassedUnchanged ==
    /\ [](pc \in {"repurpose", "repurpose_error"}
            => rows[cid].analysis_results = json_dumps(analysis_results))
    /\ [][(pc \in {"repurpose", "repurpose_error"}) => AnalysisKept]_vars

\* an item repurposed by the backend variant, its analysis still the stored one
C12_Witness ==
    /\ pc = "done"
    /\ use_huggingface
    /\ rows[cid].status = "completed"
    /\ "ai_provider" \in DOMAIN StoredBundle.rag_metadata
    /\ rows[cid].analysis_results = json_dumps(analysis_results)

\* rate limiting, model warm-up and request timeout
Transient(met) ==
    \/ met.status \in {429, 503}
    \/ met.status = 0 /\ met.raised = "Timeout"

\* C13: a request of the Hugging Face adapter that meets a transient
\* condition (HTTP 429, HTTP 503, timeout) with attempts left is followed by
\* another attempt, after the same fixed delay.
C13_TransientRetriedAfterDelay ==
    (last_request # NoRequest /\ Transient(last_request.met) /\ last_request.attempt + 1 < max_retries)
        => (last_request.again /\ last_request.slept = model_loading_wait)

\* C14: once the backend has rejected a request for bad credentials (HTTP
\* 401) the provider is disabled for the rest of the process: no call sends
\* another request.
C14_RejectedProviderDisabled == [][rejected => sent' = sent]_vars

\* the variant under call, and that its key is absent, the placeholder, or
\* (Hugging Face) without the hf_ prefix
HuggingFaceKeyless ==
    /\ pc # "off"
    /\ \/ api_key \in {None, "your_huggingface_api_key_here"}
       \/ ~StartsWith(api_key, "hf_")
GeminiKeyless ==
    /\ lpc # "off"
    /\ gemini_key \in {None, "your_gemini_api_key_here"}

\* C15: a provider whose API key is absent, the placeholder, or (Hugging
\* Face) without the hf_ prefix is skipped: analyze_content and
\* repurpose_content send no backend request and return what the local
\* engine returns.
C15_KeylessProviderSkipped ==
    /\ HuggingFaceKeyless =>
        /\ sent = 0
        /\ (pc \in {"analyzed", "raised", "over"} \/ calls > 0)
                => lanalysis = LocalAnalyze(ltext, nltk_data)
        /\ calls > 0 => lbundle = Local_repurpose_content(ltext, lanalysis.v, 0)
    /\ GeminiKeyless =>
        /\ sent = 0
        /\ lpc \in {"analyzed", "raised", "repurposed"}
                => lanalysis = LocalAnalyze(ltext, nltk_data)
        /\ lpc = "repurposed" => lbundle = Local_repurpose_content(ltext, lanalysis.v, 0)

\* a processor whose key lacks the prefix has analyzed and repurposed locally
C15_Witness ==
    /\ pc = "over"
    /\ api_key = "sk-token"
    /\ sent = 0
    /\ lbundle = Local_repurpose_content(ltext, lanalysis.v, 0)

\* C16: when the item is deleted while one of its provider calls is under
\* way, the pipeline checks that it still exists before it writes the
\* analysis, the bundle, the status or the progress: no write is issued for
\* an item that is gone.
C16_NoWriteForDeletedItem == ~stale_write

\* a call of retrieve_context has returned a context
Returned == pc = "retrieved" /\ retrieval.outcome.ok
Context == retrieval.outcome.v.context
ContextIds == retrieval.outcome.v.ids

\* the article blocks of a context string: each has one title line
Blocks(context) ==
    Cardinality({i \in 1..(Len(context) - 6) : SubSeq(context, i, i + 6) = "Title: "})

\* C17: for every retriever variant and along every path (ranked, unranked,
\* fallback after an exception) the context string retrieve_context returns
\* contains at most limit article blocks.
C17_ContextWithinLimit ==
    Returned => /\ Len(ContextIds) <= retrieval.limit
                /\ Blocks(Context) <= retrieval.limit

\* the ranking chose limit of three candidates
C17_Witness ==
    /\ Returned
    /\ retrieval.variant = "gemini"
    /\ retrieval.outcome.v.path = "ranked"
    /\ retrieval.limit = 2
    /\ Blocks(Context) = 2
    /\ ContextIds = <<2, 3>>

\* C18: the record whose id is passed as exclude_content_id never appears
\* among the blocks of the returned context, on any path, even when it is the
\* most recently created record.
C18_ExcludedNeverReturned ==
    (Returned /\ retrieval.exclude # 0)
        => /\ \A k \in DOMAIN ContextIds : ContextIds[k] # retrieval.exclude
           /\ ~Contains(Context, "Title: " \o rows[retrieval.exclude].title \o "\n")

\* the most recent record is excluded and the fallback path returns another
C18_Witness ==
    /\ Returned
    /\ Len(rows) > 1
    /\ retrieval.exclude = Len(rows)
    /\ retrieval.outcome.v.path = "fallback"
    /\ Len(ContextIds) > 0

\* C19: every block of a returned context comes from a prior record whose
\* body is longer than 100 characters, and carries at most 800 characters of
\* that body, on every path, the fallback after an exception included.
C19_BlocksFromLongBodiesTruncated ==
    Returned =>
        \A k \in DOMAIN ContextIds :
            LET body == Content(rows[ContextIds[k]].original_content)
            IN  /\ Len(body) > 100
                /\ Len(body) > 800 => ~Contains(Context, Take(body, 801))

\* no prior content, and the persistence layer raising on every query
NoPriorContent == RecentIds(rows, retrieval.exclude, Len(rows)) = <<>>
EveryQueryRaises ==
    /\ retrieval.query = "raises"
    /\ retrieval.variant = "gemini" => retrieval.requery = "raises"

\* C20: retrieve_context fails soft: it never raises to its caller, and it
\* returns the empty string when no prior content exists or when the
\* persistence layer raises on every query.
C20_RetrievalFailsSoft ==
    pc = "retrieved" =>
        /\ retrieval.outcome.ok
        /\ (NoPriorContent \/ EveryQueryRaises) => Context = ""

\* both queries of the Gemini variant raised over a table with long bodies
C20_Witness ==
    /\ pc = "retrieved"
    /\ retrieval.variant = "gemini"
    /\ retrieval.query = "raises"
    /\ retrieval.requery = "raises"
    /\ Len(rows) = MaxRows
    /\ \A i \in DOMAIN rows : rows[i].original_content = LongText
    /\ Context = ""

\* analyze_content is called again on the text of the call before
AnalyzedAgain == lpc \in {"analyzed", "raised"} /\ calls' = calls + 1

Tokens == filtered_words(ltext)
TokenSet == {Tokens[i] : i \in DOMAIN Tokens}
FirstAt(w) == CHOOSE i \in DOMAIN Tokens : Tokens[i] = w /\ \A j \in 1..(i - 1) : Tokens[j] # w
Ahead(a, b) ==
    \/ CountOf(a, Tokens) > CountOf(b, Tokens)
    \/ CountOf(a, Tokens) = CountOf(b, Tokens) /\ FirstAt(a) < FirstAt(b)

\* C24: the keywords field LocalAIProcessor.analyze_content returns is the
\* list of the 10 most frequent filtered tokens of the text (all when fewer
\* than 10 are distinct), by descending count, equal counts by first occurrence.
C24_KeywordsTopTen ==
    (lpc = "analyzed" /\ lanalysis.ok) =>
        LET keywords == lanalysis.v.keywords
        IN  /\ Len(keywords) = Min(10, Cardinality(TokenSet))
            /\ \A k \in DOMAIN keywords : keywords[k] \in TokenSet
            /\ \A k, l \in DOMAIN keywords : k < l => Ahead(keywords[k], keywords[l])
            /\ \A w \in TokenSet :
                (\A k \in DOMAIN keywords : keywords[k] # w)
                    => \A k \in DOMAIN keywords : Ahead(keywords[k], w)

\* analyze_content has returned, the provider enabled and the last request
\* of _query_huggingface having met anything but HTTP 200
ReturnedWithoutResult ==
    /\ pc = "analyzed"
    /\ use_huggingface
    /\ last_request # NoRequest
    /\ last_request.met.status # 200

\* C23: when the Hugging Face provider is enabled but its classification
\* request yields no usable result (a status other than 200, retries
\* exhausted, a request error), analyze_content returns the Analysis that
\* LocalAIProcessor.analyze_content returns for the text, sentiment included.
C23_NoResultYieldsLocalAnalysis ==
    ReturnedWithoutResult =>
        LET local_analysis == LocalAnalyze(ltext, nltk_data)
        IN  /\ lanalysis.ok = local_analysis.ok
            /\ DOMAIN lanalysis.v = DOMAIN local_analysis.v
            /\ lanalysis.v.sentiment = local_analysis.v.sentiment

\* a request sent from inside the retry loop
SentAgain == pc = "query" /\ sent' = sent + 1
\* the loop goes on to another attempt
LoopsOn == pc \in {"call", "query"} /\ pc' = "query"

QueryWithinRetries ==
    (last_request # NoRequest) => last_request.attempt < max_retries
QueryResultOnlyFor200 ==
    (pc = "result") =>
        /\ (sentiment_result # NoResult) => last_request.met.status = 200
        /\ (last_request.met.status # 200) => sentiment_result = NoResult
QueryStopsAfterError ==
    SentAgain => /\ last_request.again
                 /\ \/ last_request.met.status = 503
                    \/ /\ last_request.met.status = 0
                       /\ last_request.met.raised = "Timeout"
QueryCountsUp ==
    LoopsOn => attempt' = attempt + 1 /\ attempt' < max_retries

\* C30: _query_huggingface always terminates without raising, sends at most
\* max_retries requests, sends no further request after a response whose
\* status is neither 200 nor 503 or after an exception other than a timeout,
\* and returns the response body only for a 200 response, None otherwise.
C30_QueryBoundedAndTotal ==
    /\ [](QueryWithinRetries /\ QueryResultOnlyFor200)
    /\ [][QueryStopsAfterError]_vars
    /\ [][QueryCountsUp]_vars

\* the last of max_retries requests met a loading model, and None is returned
C30_Witness ==
    /\ pc = "result"
    /\ last_request.attempt = max_retries - 1
    /\ last_request.met.status = 503
    /\ sentiment_result = NoResult

\* the records the query of the call fetched, and those with a body of more
\* than 100 characters, most recent first
Fetched == RecentIds(rows, retrieval.exclude, 2 * retrieval.limit)
Qualifying == SelectSeq(Fetched, LAMBDA i : Len(Content(rows[i].original_content)) > 100)

\* a context built without a ranking: the variant has none, or it failed
Unranked == Returned /\ retrieval.outcome.v.path \in {"recent", "unranked"}

\* C22: when ranking is unavailable or fails and at least limit of the
\* 2 x limit fetched records have a body longer than 100 characters, the
\* context has exactly limit blocks, made of the most recent such records in
\* recency order.
C22_UnrankedTakesMostRecentCandidates ==
    (Unranked /\ Len(Qualifying) >= retrieval.limit) =>
        /\ ContextIds = Take(Qualifying, retrieval.limit)
        /\ Blocks(Context) = retrieval.limit

\* a column holds a JSON string
IsStored(column) == "json" \in DOMAIN column

\* a content item, committed or pending in a session, is complete
Complete(content) ==
    /\ IsStored(content.analysis_results)
    /\ IsStored(content.repurposed_outputs)
    /\ content.progress = 10

\* C27: in every reachable state of a content item, status 'completed' implies
\* that analysis_results and repurposed_outputs are both stored (not null)
\* and that progress is 1.0.
C27_CompletedItemIsComplete ==
    /\ \A i \in DOMAIN rows : rows[i].status = "completed" => Complete(rows[i])
    /\ ("status" \in DOMAIN obj /\ obj.status = "completed") => Complete(obj)

\* an item was completed with the inline bundle after repurpose_content raised
C27_Witness ==
    /\ pc = "done"
    /\ rows[cid].status = "completed"
    /\ "fallback_used" \in DOMAIN rows[cid].repurposed_outputs.json.rag_metadata

\* a distribute request has returned 200
Distributed == dreq # NoDistribution /\ dreq.served > 0 /\ dreq.code = 200

\* C25: after a distribute request returns, every distribution log the
\* request created has status 'posted' or 'failed', none is left 'scheduled'
\* or 'posting', also when an earlier request distributed the same item to
\* the same platform.
C25_CreatedLogsSettled ==
    Distributed => \A i \in dreq.created : logs[i].status \in {"posted", "failed"}

\* the request served by this step names an item that is not completed, or
\* no platform
ServedUnready ==
    /\ dreq'.served = dreq.served + 1
    /\ dreq'.content_id \in DOMAIN rows
    /\ \/ rows[dreq'.content_id].status # "completed"
       \/ dreq'.platforms = <<>>

\* C28: a distribute request for an item whose status is not 'completed', or
\* that names no platform, is rejected with an error, creates no distribution
\* log and does not reach distribute_content_async, the only caller of the
\* platform delivery clients.
C28_DistributionGated ==
    [][ServedUnready => /\ dreq'.code = 400
                        /\ logs' = logs
                        /\ dreq'.created = {}
                        /\ ~dreq'.invoked]_vars

\* a request naming platforms for an item not yet processed was answered 400
C28_Witness ==
    /\ dreq # NoDistribution
    /\ dreq.served > 0
    /\ dreq.code = 400
    /\ dreq.content_id \in DOMAIN rows
    /\ rows[dreq.content_id].status = "pending"
    /\ dreq.platforms = <<"twitter", "instagram">>
    /\ logs = <<>>

\* the stored bundle of the item holds a post with a text for the platform
HoldsPost(content, platform) ==
    /\ "json" \in DOMAIN content.repurposed_outputs
    /\ \E k \in DOMAIN content.repurposed_outputs.json.social_posts :
        LET post == content.repurposed_outputs.json.social_posts[k]
        IN  Lower(post.platform) = platform /\ post.text # ""

\* C29: for platform 'instagram' outside demo mode, when the bundle holds an
\* instagram post, the log of the request ends 'posted' with a generated post
\* id and url, whichever other platforms the request names and in whatever
\* order.
C29_InstagramSimulatedPosted ==
    (Distributed /\ ~demo_mode(dreq.env) /\ HoldsPost(rows[dreq.content_id], "instagram")) =>
        \A i \in dreq.created :
            logs[i].platform = "instagram" =>
                /\ logs[i].status = "posted"
                /\ logs[i].post_id # None
                /\ logs[i].post_url # None

=============================================================================
